---- MODULE Spec2Model ----
(***************************************************************************)
(* A model of the dnfa crate: the dictionary NFA (src/src/nfa.rs), its     *)
(* powerset construction, the DFA and DDFA lowerings (src/src/dfa.rs) and  *)
(* the match iterator (src/src/automaton.rs).                              *)
(*                                                                         *)
(* State numbers and pattern numbers are 0-based as in the code: a Vec of  *)
(* states is a function over 0..n-1.  A Vec of pattern numbers and a byte  *)
(* string are sequences (1-based), so pattern number i is dict[i+1].       *)
(* A BTreeMap<Input, BTreeSet<StateNumber>> is a function whose DOMAIN is  *)
(* the set of keys present.                                                *)
(***************************************************************************)
EXTENDS Integers, Sequences, FiniteSets, TLC

\* nfa.rs:12-13
AUTO_START == 0
AUTO_STUCK == 1

(***************************************************************************)
(* Bounds.  The byte type u8 is scaled down to 0..MaxByte; the code's      *)
(* 0..=255 is Byte everywhere.  usize arithmetic is scaled down to         *)
(* UsizeBits bits.                                                         *)
(***************************************************************************)
MaxByte == 1
MaxPatLen == 2
MaxDict == 2
MaxTextLen == 3
MaxOps == 2
UsizeBits == 8

Byte == 0..MaxByte
UsizeMod == 2 ^ UsizeBits

RECURSIVE SeqsUpTo(_, _)
SeqsUpTo(S, n) ==
    IF n = 0 THEN {<<>>}
    ELSE LET shorter == SeqsUpTo(S, n - 1)
         IN shorter \cup {Append(s, x) : s \in {t \in shorter : Len(t) = n - 1}, x \in S}

Patterns == SeqsUpTo(Byte, MaxPatLen)
Dictionaries == SeqsUpTo(Patterns, MaxDict)
Texts == SeqsUpTo(Byte, MaxTextLen)

(***************************************************************************)
(* Helpers for the std collections.                                        *)
(***************************************************************************)
Min(S) == CHOOSE x \in S : \A y \in S : x <= y

\* Iteration order of a BTreeSet: ascending.
RECURSIVE SortedSeq(_)
SortedSeq(S) ==
    IF S = {} THEN <<>>
    ELSE LET m == Min(S) IN <<m>> \o SortedSeq(S \ {m})

SeqSet(s) == {s[k] : k \in 1..Len(s)}

\* Vec::len and Vec::push for a Vec modelled as a function over 0..n-1.
VecLen(v) == Cardinality(DOMAIN v)
VecPush(v, x) == [k \in 0..VecLen(v) |-> IF k < VecLen(v) THEN v[k] ELSE x]

\* map.entry(byte).or_insert_with(BTreeSet::new).insert(s)
EntryInsert(tr, byte, s) ==
    [k \in (DOMAIN tr) \cup {byte} |->
        IF k \in DOMAIN tr
        THEN (IF k = byte THEN tr[k] \cup {s} ELSE tr[k])
        ELSE {s}]

\* map.get(&byte): the set stored under byte, or {} standing for None
\* where the caller does nothing on None.
GetOrEmpty(tr, byte) == IF byte \in DOMAIN tr THEN tr[byte] ELSE {}

(***************************************************************************)
(* nfa.rs: NFAState and NFA.                                               *)
(***************************************************************************)
NFAState_new == [transitions |-> <<>>, pattern_ends |-> <<>>]

NFAState_is_final(st) == st.pattern_ends # <<>>

\* Mutant of WalkPattern: an existing transition on the byte is not
\* followed; a new state is added for every byte of every pattern.
RECURSIVE WalkPattern_always_new(_, _, _, _)
WalkPattern_always_new(states, cur_state, bytes, k) ==
    IF k > Len(bytes) THEN [states |-> states, cur_state |-> cur_state]
    ELSE LET byte == bytes[k]
             nxt_state == VecLen(states)
             pushed == VecPush(states, NFAState_new)
             linked == [pushed EXCEPT ![cur_state].transitions =
                            EntryInsert(@, byte, nxt_state)]
         IN WalkPattern_always_new(linked, nxt_state, bytes, k + 1)

\* The inner loop of from_dictionary (nfa.rs:62-83) from byte k of bytes.
RECURSIVE WalkPattern(_, _, _, _)
WalkPattern(states, cur_state, bytes, k) ==
    IF k > Len(bytes) THEN [states |-> states, cur_state |-> cur_state]
    ELSE LET byte == bytes[k]
             found == GetOrEmpty(states[cur_state].transitions, byte)
         IN IF found # {}
            THEN WalkPattern(states, Min(found), bytes, k + 1)
            ELSE LET nxt_state == VecLen(states)
                     pushed == VecPush(states, NFAState_new)
                     linked == [pushed EXCEPT ![cur_state].transitions =
                                    EntryInsert(@, byte, nxt_state)]
                 IN WalkPattern(linked, nxt_state, bytes, k + 1)

\* The outer loop of from_dictionary (nfa.rs:60-85) from pattern number
\* pattern_no on.
RECURSIVE InsertPatterns(_, _, _)
InsertPatterns(states, dict, pattern_no) ==
    IF pattern_no >= Len(dict) THEN states
    ELSE LET w == WalkPattern(states, AUTO_START, dict[pattern_no + 1], 1)
             ended == [w.states EXCEPT ![w.cur_state].pattern_ends =
                           Append(@, pattern_no)]
         IN InsertPatterns(ended, dict, pattern_no + 1)

DictBytes(dict) == UNION {SeqSet(dict[k]) : k \in 1..Len(dict)}

from_dictionary(dict) ==
    [alphabet |-> SortedSeq(DictBytes(dict)),
     states |-> InsertPatterns(VecPush(VecPush(<<>>, NFAState_new), NFAState_new),
                               dict, 0),
     dict |-> dict,
     depth_map |-> <<>>]

\* (0..=255).collect()
FullAlphabet == SortedSeq(Byte)

\* Mutant of ignore_prefixes: the self-loop on START is only put on the
\* bytes START has no transition for yet (or_insert_with without insert).
ignore_prefixes_or_insert(nfa) ==
    [nfa EXCEPT
        !.alphabet = FullAlphabet,
        !.states = [@ EXCEPT ![AUTO_START].transitions =
            [byte \in Byte |-> IF byte \in DOMAIN @ THEN @[byte]
                               ELSE {AUTO_START}]]]

ignore_prefixes(nfa) ==
    [nfa EXCEPT
        !.alphabet = FullAlphabet,
        !.states = [@ EXCEPT ![AUTO_START].transitions =
            [byte \in Byte |-> GetOrEmpty(@, byte) \cup {AUTO_START}]]]

\* Mutants of ignore_postfixes: the self-loops are added before the alphabet
\* is widened, so only over the dictionary's bytes; START is skipped.
ignore_postfixes_old_alphabet(nfa) ==
    [nfa EXCEPT
        !.alphabet = FullAlphabet,
        !.states = [fin \in DOMAIN @ |->
            IF NFAState_is_final(@[fin])
            THEN [@[fin] EXCEPT !.transitions =
                    [byte \in (DOMAIN @) \cup SeqSet(nfa.alphabet) |->
                        IF byte \in SeqSet(nfa.alphabet)
                        THEN GetOrEmpty(@, byte) \cup {fin}
                        ELSE @[byte]]]
            ELSE @[fin]]]

ignore_postfixes_skip_start(nfa) ==
    [nfa EXCEPT
        !.alphabet = FullAlphabet,
        !.states = [fin \in DOMAIN @ |->
            IF NFAState_is_final(@[fin]) /\ fin # AUTO_START
            THEN [@[fin] EXCEPT !.transitions =
                    [byte \in Byte |-> GetOrEmpty(@, byte) \cup {fin}]]
            ELSE @[fin]]]

ignore_postfixes(nfa) ==
    [nfa EXCEPT
        !.alphabet = FullAlphabet,
        !.states = [fin \in DOMAIN @ |->
            IF NFAState_is_final(@[fin])
            THEN [@[fin] EXCEPT !.transitions =
                    [byte \in Byte |-> GetOrEmpty(@, byte) \cup {fin}]]
            ELSE @[fin]]]

\* Mutant of NFA_next_state: only the first active state is followed.
NFA_next_state_first(nfa, states, input) ==
    IF states = {} THEN {}
    ELSE GetOrEmpty(nfa.states[Min(states)].transitions, input)

\* One pass of the byte loop of apply / next_state (nfa.rs:159-163, 366-376).
NFA_next_state(nfa, states, input) ==
    UNION {GetOrEmpty(nfa.states[state].transitions, input) : state \in states}

\* Mutant of NFA_run: the loop stops early, on the last non-empty active
\* set, when no active state has a transition on the byte.
RECURSIVE NFA_run_keep_on_miss(_, _, _, _)
NFA_run_keep_on_miss(nfa, cur_states, input, k) ==
    IF k > Len(input) THEN cur_states
    ELSE LET nxt_states == NFA_next_state(nfa, cur_states, input[k])
         IN IF nxt_states = {} THEN cur_states
            ELSE NFA_run_keep_on_miss(nfa, nxt_states, input, k + 1)

\* for &byte in input, from byte k of input on (nfa.rs:158-166).
RECURSIVE NFA_run(_, _, _, _)
NFA_run(nfa, cur_states, input, k) ==
    IF k > Len(input) THEN cur_states
    ELSE NFA_run(nfa, NFA_next_state(nfa, cur_states, input[k]), input, k + 1)

RECURSIVE FlatMapEnds(_, _)
FlatMapEnds(nfa, order) ==
    IF order = <<>> THEN <<>>
    ELSE nfa.states[Head(order)].pattern_ends \o FlatMapEnds(nfa, Tail(order))

\* Mutant of NFA_apply: only the first final active state is reported.
NFA_apply_first_state(nfa, input) ==
    LET cur_states == NFA_run(nfa, {AUTO_START}, input, 1)
    IN IF cur_states = {} THEN <<>>
       ELSE nfa.states[Min(cur_states)].pattern_ends

\* Mutant of NFA_apply: the pattern-ends of every active set passed on the
\* way are reported, not only those of the final one.
RECURSIVE NFA_ends_on_the_way(_, _, _, _)
NFA_ends_on_the_way(nfa, cur_states, input, k) ==
    FlatMapEnds(nfa, SortedSeq(cur_states)) \o
        (IF k > Len(input) THEN <<>>
         ELSE NFA_ends_on_the_way(nfa, NFA_next_state(nfa, cur_states, input[k]),
                                  input, k + 1))
NFA_apply_accumulate(nfa, input) ==
    NFA_ends_on_the_way(nfa, {AUTO_START}, input, 1)

NFA_apply(nfa, input) ==
    FlatMapEnds(nfa, SortedSeq(NFA_run(nfa, {AUTO_START}, input, 1)))

(***************************************************************************)
(* nfa.rs: powerset_construction.  ps is the mutable state of the loop:    *)
(* the DNFA's states, states_map (keyed by the sorted Vec of NFA states,    *)
(* modelled as the set) and the worklist (a stack: push and pop at the     *)
(* end).                                                                   *)
(***************************************************************************)
MapInsert(m, key, val) ==
    [k \in (DOMAIN m) \cup {key} |-> IF k = key THEN val ELSE m[k]]

\* Mutant of PowersetInput: the transition installed goes to the NFA's
\* next states, not to the number of the DNFA state that stands for them.
PowersetInput_nfa_targets(self, ps, cur_states, cur_num, input) ==
    LET nxt_states == UNION {GetOrEmpty(self.states[cur_state].transitions, input) :
                                cur_state \in cur_states}
        fin == UNION {SeqSet(self.states[st].pattern_ends) : st \in nxt_states}
        known == nxt_states \in DOMAIN ps.states_map
        nxt_num == IF known THEN ps.states_map[nxt_states] ELSE VecLen(ps.states)
        new_state == [NFAState_new EXCEPT !.pattern_ends = SortedSeq(fin)]
        dnfa_states == IF known THEN ps.states ELSE VecPush(ps.states, new_state)
        states_map == IF known THEN ps.states_map
                      ELSE MapInsert(ps.states_map, nxt_states, nxt_num)
        worklist == IF ~known /\ nxt_num # AUTO_STUCK
                    THEN Append(ps.worklist, <<nxt_states, nxt_num>>)
                    ELSE ps.worklist
    IN [states |-> [dnfa_states EXCEPT ![cur_num].transitions =
                        [k \in (DOMAIN @) \cup {input} |->
                            IF k = input THEN GetOrEmpty(@, k) \cup nxt_states
                            ELSE @[k]]],
        states_map |-> states_map,
        worklist |-> worklist,
        pushed |-> IF ~known /\ nxt_num # AUTO_STUCK
                   THEN Append(ps.pushed, <<nxt_states, nxt_num>>)
                   ELSE ps.pushed]

\* Mutant of PowersetInput: the pattern_ends of a new state are gathered
\* from the states the step leaves, not from the states it enters.
PowersetInput_fin_of_current(self, ps, cur_states, cur_num, input) ==
    LET nxt_states == UNION {GetOrEmpty(self.states[cur_state].transitions, input) :
                                cur_state \in cur_states}
        fin == UNION {SeqSet(self.states[st].pattern_ends) : st \in cur_states}
        known == nxt_states \in DOMAIN ps.states_map
        nxt_num == IF known THEN ps.states_map[nxt_states] ELSE VecLen(ps.states)
        new_state == [NFAState_new EXCEPT !.pattern_ends = SortedSeq(fin)]
        dnfa_states == IF known THEN ps.states ELSE VecPush(ps.states, new_state)
        states_map == IF known THEN ps.states_map
                      ELSE MapInsert(ps.states_map, nxt_states, nxt_num)
        worklist == IF ~known /\ nxt_num # AUTO_STUCK
                    THEN Append(ps.worklist, <<nxt_states, nxt_num>>)
                    ELSE ps.worklist
    IN [states |-> [dnfa_states EXCEPT ![cur_num].transitions =
                        EntryInsert(@, input, nxt_num)],
        states_map |-> states_map,
        worklist |-> worklist,
        pushed |-> IF ~known /\ nxt_num # AUTO_STUCK
                   THEN Append(ps.pushed, <<nxt_states, nxt_num>>)
                   ELSE ps.pushed]

\* The body of the loop over the alphabet for one input (nfa.rs:206-237).
PowersetInput(self, ps, cur_states, cur_num, input) ==
    LET nxt_states == UNION {GetOrEmpty(self.states[cur_state].transitions, input) :
                                cur_state \in cur_states}
        fin == UNION {SeqSet(self.states[st].pattern_ends) : st \in nxt_states}
        known == nxt_states \in DOMAIN ps.states_map
        nxt_num == IF known THEN ps.states_map[nxt_states] ELSE VecLen(ps.states)
        new_state == [NFAState_new EXCEPT !.pattern_ends = SortedSeq(fin)]
        dnfa_states == IF known THEN ps.states ELSE VecPush(ps.states, new_state)
        states_map == IF known THEN ps.states_map
                      ELSE MapInsert(ps.states_map, nxt_states, nxt_num)
        worklist == IF ~known /\ nxt_num # AUTO_STUCK
                    THEN Append(ps.worklist, <<nxt_states, nxt_num>>)
                    ELSE ps.worklist
    IN [states |-> [dnfa_states EXCEPT ![cur_num].transitions =
                        EntryInsert(@, input, nxt_num)],
        states_map |-> states_map,
        worklist |-> worklist,
        pushed |-> IF ~known /\ nxt_num # AUTO_STUCK
                   THEN Append(ps.pushed, <<nxt_states, nxt_num>>)
                   ELSE ps.pushed]

\* Mutant of PowersetInputs: the loop leaves out the last byte of the
\* alphabet.
RECURSIVE PowersetInputs_skip_last(_, _, _, _, _)
PowersetInputs_skip_last(self, ps, cur_states, cur_num, k) ==
    IF k >= Len(self.alphabet) THEN ps
    ELSE PowersetInputs_skip_last(self,
                        PowersetInput(self, ps, cur_states, cur_num, self.alphabet[k]),
                        cur_states, cur_num, k + 1)

\* for &input in &dnfa.alphabet, from index k of the alphabet (nfa.rs:205).
RECURSIVE PowersetInputs(_, _, _, _, _)
PowersetInputs(self, ps, cur_states, cur_num, k) ==
    IF k > Len(self.alphabet) THEN ps
    ELSE PowersetInputs(self,
                        PowersetInput(self, ps, cur_states, cur_num, self.alphabet[k]),
                        cur_states, cur_num, k + 1)

\* while let Some((cur_states, cur_num)) = worklist.pop() (nfa.rs:204).
RECURSIVE PowersetLoop(_, _)
PowersetLoop(self, ps) ==
    IF ps.worklist = <<>> THEN ps
    ELSE LET top == ps.worklist[Len(ps.worklist)]
             popped == [ps EXCEPT !.worklist = SubSeq(@, 1, Len(@) - 1)]
         IN PowersetLoop(self, PowersetInputs(self, popped, top[1], top[2], 1))

\* Mutant of powerset_construction: START's pattern_ends are set on the
\* template state that vec![_; 2] clones, so STUCK gets them too.
powerset_construction_template_ends(self) ==
    LET start_state == [NFAState_new EXCEPT
                           !.pattern_ends = self.states[AUTO_START].pattern_ends]
        ps0 == [states |-> VecPush(VecPush(<<>>, start_state), start_state),
                states_map |-> MapInsert(MapInsert(MapInsert(<<>>,
                                  {}, AUTO_STUCK),
                                  {AUTO_STUCK}, AUTO_STUCK),
                                  {AUTO_START}, AUTO_START),
                worklist |-> << <<{AUTO_START}, AUTO_START>> >>,
                pushed |-> << <<{AUTO_START}, AUTO_START>> >>]
    IN [alphabet |-> self.alphabet,
        states |-> PowersetLoop(self, ps0).states,
        dict |-> self.dict,
        depth_map |-> <<>>]

\* Mutant of PowersetSetup: the empty set of NFA states is not entered in
\* states_map before the loop.
PowersetSetup_no_empty_seed(self) ==
    LET start_state == [NFAState_new EXCEPT
                           !.pattern_ends = self.states[AUTO_START].pattern_ends]
    IN [states |-> VecPush(VecPush(<<>>, start_state), NFAState_new),
        states_map |-> MapInsert(MapInsert(<<>>,
                          {AUTO_STUCK}, AUTO_STUCK),
                          {AUTO_START}, AUTO_START),
        worklist |-> << <<{AUTO_START}, AUTO_START>> >>,
        pushed |-> << <<{AUTO_START}, AUTO_START>> >>]

\* The two states, the three entries of states_map and the worklist that
\* powerset_construction sets up before its loop (nfa.rs:174-203).  pushed
\* is the history of the worklist: every pair ever pushed, in order.
PowersetSetup(self) ==
    LET start_state == [NFAState_new EXCEPT
                           !.pattern_ends = self.states[AUTO_START].pattern_ends]
    IN [states |-> VecPush(VecPush(<<>>, start_state), NFAState_new),
        states_map |-> MapInsert(MapInsert(MapInsert(<<>>,
                          {}, AUTO_STUCK),
                          {AUTO_STUCK}, AUTO_STUCK),
                          {AUTO_START}, AUTO_START),
        worklist |-> << <<{AUTO_START}, AUTO_START>> >>,
        pushed |-> << <<{AUTO_START}, AUTO_START>> >>]

\* The local states_map of powerset_construction when its loop has ended:
\* the DNFA state number of every set of NFA states it met.
powerset_states_map(self) == PowersetLoop(self, PowersetSetup(self)).states_map

\* Mutant of powerset_construction: the DNFA's START does not receive the
\* pattern_ends of the NFA's START.
powerset_construction_start_no_ends(self) ==
    [alphabet |-> self.alphabet,
     states |-> PowersetLoop(self,
                    [PowersetSetup(self) EXCEPT
                        !.states[AUTO_START].pattern_ends = <<>>]).states,
     dict |-> self.dict,
     depth_map |-> <<>>]

powerset_construction(self) ==
    [alphabet |-> self.alphabet,
     states |-> PowersetLoop(self, PowersetSetup(self)).states,
     dict |-> self.dict,
     depth_map |-> <<>>]

(***************************************************************************)
(* Result<T, ()>.                                                          *)
(***************************************************************************)
Ok(v) == [ok |-> TRUE, val |-> v]
Err == [ok |-> FALSE]

(***************************************************************************)
(* nfa.rs: NFAState::into_dfa and NFA::into_dfa.  vec![AUTO_STUCK; 256]    *)
(* is the function over Byte.                                              *)
(***************************************************************************)
\* Mutant of NFAState_into_dfa: the table is filled with AUTO_START.
NFAState_into_dfa_fill_start(st) ==
    IF \E i \in DOMAIN st.transitions : Cardinality(st.transitions[i]) # 1
    THEN Err
    ELSE Ok([transitions |-> [i \in Byte |->
                                IF i \in DOMAIN st.transitions
                                THEN Min(st.transitions[i])
                                ELSE AUTO_START],
             pattern_ends |-> st.pattern_ends])

\* Mutant of NFAState_into_dfa: the size of the target set is not checked,
\* the first target is taken.
NFAState_into_dfa_first_target(st) ==
    Ok([transitions |-> [i \in Byte |->
                            IF i \in DOMAIN st.transitions /\ st.transitions[i] # {}
                            THEN Min(st.transitions[i])
                            ELSE AUTO_STUCK],
        pattern_ends |-> st.pattern_ends])

NFAState_into_dfa(st) ==
    IF \E i \in DOMAIN st.transitions : Cardinality(st.transitions[i]) # 1
    THEN Err
    ELSE Ok([transitions |-> [i \in Byte |->
                                IF i \in DOMAIN st.transitions
                                THEN Min(st.transitions[i])
                                ELSE AUTO_STUCK],
             pattern_ends |-> st.pattern_ends])

\* Mutant of NFA::into_dfa: the finals bit marks the states without
\* outgoing transitions instead of the states with pattern_ends.
NFA_into_dfa_leaf_finals(self) ==
    IF \E i \in DOMAIN self.states : ~NFAState_into_dfa(self.states[i]).ok
    THEN Err
    ELSE Ok([states |-> [i \in DOMAIN self.states |->
                            NFAState_into_dfa(self.states[i]).val],
             finals |-> [i \in DOMAIN self.states |->
                            DOMAIN self.states[i].transitions = {}],
             dict |-> self.dict])

NFA_into_dfa(self) ==
    IF \E i \in DOMAIN self.states : ~NFAState_into_dfa(self.states[i]).ok
    THEN Err
    ELSE Ok([states |-> [i \in DOMAIN self.states |->
                            NFAState_into_dfa(self.states[i]).val],
             finals |-> [i \in DOMAIN self.states |->
                            NFAState_is_final(self.states[i])],
             dict |-> self.dict])

(***************************************************************************)
(* dfa.rs: DFA::into_ddfa.  A *const DDFAState is an address: the address  *)
(* of element k of the boxed slice is states_start + k * size_of the       *)
(* element, and a dereference finds the element back from the address.     *)
(***************************************************************************)
\* mem::size_of::<DDFAState>() on a 64-bit target: Box<[_]> 16, Vec 24, bool 8.
DDFAStateSize == 48
\* The address the allocator gave the boxed slice of DDFA states.
StatesStart == 4096

PtrOffset(states_start, offset) == states_start + offset * DDFAStateSize

\* Mutant of DFA_into_ddfa: the range check is offset > states_len.
DFA_into_ddfa_off_by_one(self) ==
    LET states_len == VecLen(self.states)
        states_start == StatesStart
    IN IF \E i \in DOMAIN self.states : \E b \in Byte :
             self.states[i].transitions[b] > states_len
       THEN Err
       ELSE Ok([states_start |-> states_start,
                states |-> [i \in DOMAIN self.states |->
                    [transitions |-> [b \in Byte |->
                        PtrOffset(states_start, self.states[i].transitions[b])],
                     pattern_ends |-> self.states[i].pattern_ends,
                     is_final |-> self.finals[i]]],
                dict |-> self.dict])

DFA_into_ddfa(self) ==
    LET states_len == VecLen(self.states)
        states_start == StatesStart
    IN IF \E i \in DOMAIN self.states : \E b \in Byte :
             self.states[i].transitions[b] >= states_len
       THEN Err
       ELSE Ok([states_start |-> states_start,
                states |-> [i \in DOMAIN self.states |->
                    [transitions |-> [b \in Byte |->
                        PtrOffset(states_start, self.states[i].transitions[b])],
                     pattern_ends |-> self.states[i].pattern_ends,
                     is_final |-> self.finals[i]]],
                dict |-> self.dict])

\* &self.states[i]
DDFA_ref(self, i) == PtrOffset(self.states_start, i)
\* *ptr, for a pointer into the state array of self
DDFA_deref(self, ptr) == self.states[(ptr - self.states_start) \div DDFAStateSize]

(***************************************************************************)
(* dfa.rs: DFA::apply and DDFA::apply, with their early break on STUCK.    *)
(***************************************************************************)
RECURSIVE DFA_run(_, _, _, _)
DFA_run(self, cur_state, input, k) ==
    IF k > Len(input) THEN cur_state
    ELSE LET nxt == self.states[cur_state].transitions[input[k]]
         IN IF nxt = AUTO_STUCK THEN nxt ELSE DFA_run(self, nxt, input, k + 1)

DFA_apply(self, input) == self.states[DFA_run(self, AUTO_START, input, 1)].pattern_ends

RECURSIVE DDFA_run(_, _, _, _)
DDFA_run(self, cur_state, input, k) ==
    IF k > Len(input) THEN cur_state
    ELSE LET nxt == DDFA_deref(self, cur_state).transitions[input[k]]
         IN IF nxt = DDFA_ref(self, AUTO_STUCK) THEN nxt
            ELSE DDFA_run(self, nxt, input, k + 1)

DDFA_apply(self, input) ==
    DDFA_deref(self, DDFA_run(self, DDFA_ref(self, AUTO_START), input, 1)).pattern_ends

(***************************************************************************)
(* usize subtraction (nfa.rs:394, dfa.rs:116, dfa.rs:180): with overflow   *)
(* checks (the dev and test profiles) an underflow panics, without them    *)
(* (the release and bench profiles) it wraps.                              *)
(***************************************************************************)
Panic == [panic |-> TRUE]
NoPanic(v) == [panic |-> FALSE, val |-> v]

UsizeSub(a, b, checks) ==
    IF a >= b THEN NoPanic(a - b)
    ELSE IF checks THEN Panic
    ELSE NoPanic((a - b + UsizeMod) % UsizeMod)

\* Match { patt_no, start: text_offset - self.dict[patt_no].len(), end: text_offset }
MakeMatch(dictionary, patt_no, text_offset, checks) ==
    LET start == UsizeSub(text_offset, Len(dictionary[patt_no + 1]), checks)
    IN IF start.panic THEN Panic
       ELSE NoPanic([pattern_no |-> patt_no, start |-> start.val, end |-> text_offset])

(***************************************************************************)
(* impl Automaton for NFA (nfa.rs:354-401).                                *)
(***************************************************************************)
NFA_start_state == {AUTO_START}

NFA_has_match(self, states, patt_no_offset) ==
    \E state \in states : patt_no_offset < Len(self.states[state].pattern_ends)

\* for &state in states: the first state, in ascending order, whose
\* pattern_ends has an entry at patt_no_offset; panic!() when there is none.
NFA_get_match(self, states, patt_no_offset, text_offset, checks) ==
    LET having == {state \in states :
                      patt_no_offset < Len(self.states[state].pattern_ends)}
    IN IF having = {} THEN Panic
       ELSE MakeMatch(self.dict,
                      self.states[Min(having)].pattern_ends[patt_no_offset + 1],
                      text_offset, checks)

(***************************************************************************)
(* impl Automaton for DFA (dfa.rs:90-120).  An index out of range panics.  *)
(***************************************************************************)
DFA_start_state == AUTO_START

DFA_next_state(self, state, input) == self.states[state].transitions[input]

DFA_has_match(self, state, patt_no_offset) ==
    patt_no_offset < Len(self.states[state].pattern_ends)

DFA_get_match(self, state, patt_no_offset, text_offset, checks) ==
    IF patt_no_offset >= Len(self.states[state].pattern_ends) THEN Panic
    ELSE MakeMatch(self.dict, self.states[state].pattern_ends[patt_no_offset + 1],
                   text_offset, checks)

(***************************************************************************)
(* impl Automaton for DDFA (dfa.rs:154-184).  get_match is only modelled   *)
(* where has_match holds, the one place the iterator calls it.             *)
(***************************************************************************)
DDFA_start_state(self) == DDFA_ref(self, AUTO_START)

DDFA_next_state(self, state, input) == DDFA_deref(self, state).transitions[input]

DDFA_has_match(self, state, patt_no_offset) ==
    patt_no_offset < Len(DDFA_deref(self, state).pattern_ends)

DDFA_get_match(self, state, patt_no_offset, text_offset, checks) ==
    MakeMatch(self.dict, DDFA_deref(self, state).pattern_ends[patt_no_offset + 1],
              text_offset, checks)

(***************************************************************************)
(* automaton.rs: the trait's dispatch, find and Matches::next.  An         *)
(* automaton value A is [kind, aut]; kind "nfa" also serves the DNFA,      *)
(* which has the NFA type.                                                 *)
(***************************************************************************)
Aut_start_state(A) ==
    CASE A.kind = "nfa" -> NFA_start_state
      [] A.kind = "dfa" -> DFA_start_state
      [] A.kind = "ddfa" -> DDFA_start_state(A.aut)

Aut_next_state(A, state, input) ==
    CASE A.kind = "nfa" -> NFA_next_state(A.aut, state, input)
      [] A.kind = "dfa" -> DFA_next_state(A.aut, state, input)
      [] A.kind = "ddfa" -> DDFA_next_state(A.aut, state, input)

Aut_has_match(A, state, outi) ==
    CASE A.kind = "nfa" -> NFA_has_match(A.aut, state, outi)
      [] A.kind = "dfa" -> DFA_has_match(A.aut, state, outi)
      [] A.kind = "ddfa" -> DDFA_has_match(A.aut, state, outi)

Aut_get_match(A, state, outi, texti, checks) ==
    CASE A.kind = "nfa" -> NFA_get_match(A.aut, state, outi, texti, checks)
      [] A.kind = "dfa" -> DFA_get_match(A.aut, state, outi, texti, checks)
      [] A.kind = "ddfa" -> DDFA_get_match(A.aut, state, outi, texti, checks)

\* Automaton::find (automaton.rs:16-25)
Aut_find(A, s) == [input |-> s, offset |-> 0, state |-> Aut_start_state(A)]

\* The while loop of Matches::next (automaton.rs:63-69).  offset is the
\* 0-based index, so self.input[offset] is input[offset + 1].
RECURSIVE MatchesScan(_, _, _, _)
MatchesScan(A, input, state, offset) ==
    IF offset < Len(input)
    THEN LET nxt == Aut_next_state(A, state, input[offset + 1])
         IN IF Aut_has_match(A, nxt, 0)
            THEN [state |-> nxt, offset |-> offset]
            ELSE MatchesScan(A, input, nxt, offset + 1)
    ELSE [state |-> state, offset |-> offset]

\* Mutant of MatchesNext: a match pending in the traversal state is also
\* reported when the input is exhausted.
MatchesNext_match_at_end(A, self, checks) ==
    LET scan == MatchesScan(A, self.input, self.state, self.offset)
    IN IF scan.offset < Len(self.input) \/ Aut_has_match(A, scan.state, 0)
       THEN LET m == Aut_get_match(A, scan.state, 0, scan.offset, checks)
            IN [it |-> [self EXCEPT !.state = scan.state,
                                    !.offset = Min({scan.offset + 1, Len(self.input)})],
                result |-> IF m.panic THEN [tag |-> "Panic"]
                           ELSE [tag |-> "Some", m |-> m.val]]
       ELSE [it |-> [self EXCEPT !.state = scan.state],
             result |-> [tag |-> "None"]]

\* Matches::next (automaton.rs:61-76): the iterator after the call and what
\* the call returned: Some(m), None, or a panic.
\* Mutant of MatchesNext: after a match the stored offset moves one byte
\* on (self.offset += 1) instead of to the byte after the match.
MatchesNext_step_one(A, self, checks) ==
    LET scan == MatchesScan(A, self.input, self.state, self.offset)
    IN IF scan.offset < Len(self.input)
       THEN LET m == Aut_get_match(A, scan.state, 0, scan.offset, checks)
            IN [it |-> [self EXCEPT !.state = scan.state, !.offset = self.offset + 1],
                result |-> IF m.panic THEN [tag |-> "Panic"]
                           ELSE [tag |-> "Some", m |-> m.val]]
       ELSE [it |-> [self EXCEPT !.state = scan.state],
             result |-> [tag |-> "None"]]

MatchesNext(A, self, checks) ==
    LET scan == MatchesScan(A, self.input, self.state, self.offset)
    IN IF scan.offset < Len(self.input)
       THEN LET m == Aut_get_match(A, scan.state, 0, scan.offset, checks)
            IN [it |-> [self EXCEPT !.state = scan.state, !.offset = scan.offset + 1],
                result |-> IF m.panic THEN [tag |-> "Panic"]
                           ELSE [tag |-> "Some", m |-> m.val]]
       ELSE [it |-> [self EXCEPT !.state = scan.state],
             result |-> [tag |-> "None"]]

(***************************************************************************)
(* The state machine.  A dictionary is turned into an NFA (Init), mutated  *)
(* by ignore_prefixes / ignore_postfixes, determinised and lowered; the    *)
(* automata are then applied to texts and searched with find.  The values  *)
(* the lowerings consume (the DNFA, the DFA) are kept in the state so that *)
(* the automata can be compared on the same text, as the tests do by       *)
(* building them again.                                                    *)
(***************************************************************************)
VARIABLES
    dict,             \* the dictionary given to from_dictionary
    ops,              \* the ignore_* calls made on nfa, in order
    nfa,              \* the NFA
    stage,            \* how far the pipeline got: "nfa", "dnfa", "dfa", "ddfa"
    dnfa,             \* powerset_construction(nfa)
    dfa,              \* dnfa.into_dfa(), a Result
    ddfa,             \* dfa.into_ddfa(), a Result
    overflow_checks,  \* the build profile: does usize arithmetic panic on overflow
    text,             \* the input of the last apply or find
    applied,          \* what apply(text) returned on each automaton
    aut,              \* the automaton the live iterator borrows: "nfa", "dnfa", "dfa", "ddfa"
    it,               \* the live Matches iterator
    last,             \* what the last call of next() returned
    yielded,          \* the matches the live iterator has yielded so far
    ndfa,             \* the NDFA under construction (ndfa.rs)
    scc               \* the SccMutState of a traversal (scc.rs)

vars == <<dict, ops, nfa, stage, dnfa, dfa, ddfa, overflow_checks,
          text, applied, aut, it, last, yielded, ndfa, scc>>

Null == [null |-> TRUE]
NoResult == [tag |-> "Init"]
AutKinds == {"nfa", "dnfa", "dfa", "ddfa"}

\* The automaton value behind each name.
Automaton(name) ==
    CASE name = "nfa" -> [kind |-> "nfa", aut |-> nfa]
      [] name = "dnfa" -> [kind |-> "nfa", aut |-> dnfa]
      [] name = "dfa" -> [kind |-> "dfa", aut |-> dfa.val]
      [] name = "ddfa" -> [kind |-> "ddfa", aut |-> ddfa.val]

Init ==
    /\ dict \in Dictionaries
    /\ nfa = from_dictionary(dict)
    /\ ops = <<>>
    /\ stage = "nfa"
    /\ dnfa = Null
    /\ dfa = Null
    /\ ddfa = Null
    /\ overflow_checks \in BOOLEAN
    /\ text = <<>>
    /\ applied = Null
    /\ aut = "none"
    /\ it = Null
    /\ last = NoResult
    /\ yielded = <<>>
    /\ ndfa = Null
    /\ scc = Null

IgnorePrefixes ==
    /\ stage = "nfa"
    /\ Len(ops) < MaxOps
    /\ nfa' = ignore_prefixes(nfa)
    /\ ops' = Append(ops, "pre")
    /\ UNCHANGED <<ndfa, scc, dict, stage, dnfa, dfa, ddfa, overflow_checks,
                   text, applied, aut, it, last, yielded>>

IgnorePostfixes ==
    /\ stage = "nfa"
    /\ Len(ops) < MaxOps
    /\ nfa' = ignore_postfixes(nfa)
    /\ ops' = Append(ops, "post")
    /\ UNCHANGED <<ndfa, scc, dict, stage, dnfa, dfa, ddfa, overflow_checks,
                   text, applied, aut, it, last, yielded>>

PowersetConstruction ==
    /\ stage = "nfa"
    /\ dnfa' = powerset_construction(nfa)
    /\ stage' = "dnfa"
    /\ UNCHANGED <<ndfa, scc, dict, ops, nfa, dfa, ddfa, overflow_checks,
                   text, applied, aut, it, last, yielded>>

IntoDfa ==
    /\ stage = "dnfa"
    /\ dfa' = NFA_into_dfa(dnfa)
    /\ stage' = "dfa"
    /\ UNCHANGED <<ndfa, scc, dict, ops, nfa, dnfa, ddfa, overflow_checks,
                   text, applied, aut, it, last, yielded>>

IntoDdfa ==
    /\ stage = "dfa"
    /\ dfa.ok
    /\ ddfa' = DFA_into_ddfa(dfa.val)
    /\ stage' = "ddfa"
    /\ UNCHANGED <<ndfa, scc, dict, ops, nfa, dnfa, dfa, overflow_checks,
                   text, applied, aut, it, last, yielded>>

\* No apply and no find has been made yet.  apply and find take &self and
\* start from fresh local state, so what a second call returns does not
\* depend on the first: a behaviour makes one of them.
Idle == applied = Null /\ aut = "none"

\* apply(t) on each of the four automata.
Apply(t) ==
    /\ stage = "ddfa"
    /\ ddfa.ok
    /\ Idle
    /\ text' = t
    /\ applied' = [nfa |-> NFA_apply(nfa, t),
                   dnfa |-> NFA_apply(dnfa, t),
                   dfa |-> DFA_apply(dfa.val, t),
                   ddfa |-> DDFA_apply(ddfa.val, t)]
    /\ aut' = "none"
    /\ it' = Null
    /\ last' = NoResult
    /\ yielded' = <<>>
    /\ UNCHANGED <<ndfa, scc, dict, ops, nfa, stage, dnfa, dfa, ddfa, overflow_checks>>

\* automaton.find(t): a fresh iterator over one of the automata.
Find(name, t) ==
    /\ stage = "ddfa"
    /\ ddfa.ok
    /\ Idle
    /\ text' = t
    /\ applied' = Null
    /\ aut' = name
    /\ it' = Aut_find(Automaton(name), t)
    /\ last' = NoResult
    /\ yielded' = <<>>
    /\ UNCHANGED <<ndfa, scc, dict, ops, nfa, stage, dnfa, dfa, ddfa, overflow_checks>>

\* One call of next() on the live iterator.  A panic ends the iterator.
MatchesNextCall ==
    /\ aut \in AutKinds
    /\ last.tag # "Panic"
    /\ LET r == MatchesNext(Automaton(aut), it, overflow_checks)
       IN /\ it' = r.it
          /\ last' = r.result
          /\ yielded' = IF r.result.tag = "Some" THEN Append(yielded, r.result.m)
                        ELSE yielded
    /\ UNCHANGED <<ndfa, scc, dict, ops, nfa, stage, dnfa, dfa, ddfa, overflow_checks,
                   text, applied, aut>>

Next ==
    \/ IgnorePrefixes
    \/ IgnorePostfixes
    \/ PowersetConstruction
    \/ IntoDfa
    \/ IntoDdfa
    \/ \E t \in Texts : Apply(t)
    \/ \E name \in AutKinds, t \in Texts : Find(name, t)
    \/ MatchesNextCall

Spec == Init /\ [][Next]_vars

(***************************************************************************)
(* The tests' BASIC_DICTIONARY (nfa.rs:460, dfa.rs:277) on the baseline    *)
(* NFA and its DNFA, as tests::basic and tests::basic_powerset use it:     *)
(* ["a", "ab", "bab", "bc", "bca", "c", "caa"] with the bytes a, b, c      *)
(* written 0, 1, 2.  No ignore_* and no dense lowering is made here, so    *)
(* nothing that ranges over Byte takes part.                               *)
(***************************************************************************)
BASIC_DICTIONARY ==
    << <<0>>, <<0, 1>>, <<1, 0, 1>>, <<1, 2>>, <<1, 2, 0>>, <<2>>, <<2, 0, 0>> >>

MaxBasicTextLen == 3
BasicTexts == SeqsUpTo(DictBytes(BASIC_DICTIONARY), MaxBasicTextLen)
BasicKinds == {"nfa", "dnfa"}

InitBasic ==
    /\ dict = BASIC_DICTIONARY
    /\ nfa = from_dictionary(dict)
    /\ ops = <<>>
    /\ stage = "nfa"
    /\ dnfa = Null
    /\ dfa = Null
    /\ ddfa = Null
    /\ overflow_checks \in BOOLEAN
    /\ text = <<>>
    /\ applied = Null
    /\ aut = "none"
    /\ it = Null
    /\ last = NoResult
    /\ yielded = <<>>
    /\ ndfa = Null
    /\ scc = Null

\* apply(t) on the baseline NFA and on its DNFA.
ApplyBasic(t) ==
    /\ stage = "dnfa"
    /\ Idle
    /\ text' = t
    /\ applied' = [nfa |-> NFA_apply(nfa, t), dnfa |-> NFA_apply(dnfa, t)]
    /\ UNCHANGED <<ndfa, scc, dict, ops, nfa, stage, dnfa, dfa, ddfa, overflow_checks,
                   aut, it, last, yielded>>

\* find(t) on the baseline NFA or on its DNFA.
FindBasic(name, t) ==
    /\ stage = "dnfa"
    /\ Idle
    /\ text' = t
    /\ aut' = name
    /\ it' = Aut_find(Automaton(name), t)
    /\ UNCHANGED <<ndfa, scc, dict, ops, nfa, stage, dnfa, dfa, ddfa, overflow_checks,
                   applied, last, yielded>>

NextBasic ==
    \/ PowersetConstruction
    \/ \E t \in BasicTexts : ApplyBasic(t)
    \/ \E name \in BasicKinds, t \in BasicTexts : FindBasic(name, t)
    \/ MatchesNextCall

SpecBasic == InitBasic /\ [][NextBasic]_vars

(***************************************************************************)
(* The lowering of any NFA value.  powerset_construction returns a value   *)
(* of the NFA type, so every method of NFA can be called on it again, and  *)
(* into_dfa can be called on an NFA that was never determinised.  Here nfa *)
(* is the current NFA value and ops the calls that made it, "powerset"     *)
(* included.                                                               *)
(***************************************************************************)
PowersetConstructionChained ==
    /\ stage = "nfa"
    /\ Len(ops) < MaxOps
    /\ nfa' = powerset_construction(nfa)
    /\ ops' = Append(ops, "powerset")
    /\ UNCHANGED <<ndfa, scc, dict, stage, dnfa, dfa, ddfa, overflow_checks,
                   text, applied, aut, it, last, yielded>>

IntoDfaChained ==
    /\ stage = "nfa"
    /\ dfa' = NFA_into_dfa(nfa)
    /\ stage' = "dfa"
    /\ UNCHANGED <<ndfa, scc, dict, ops, nfa, dnfa, ddfa, overflow_checks,
                   text, applied, aut, it, last, yielded>>

NextLower ==
    \/ IgnorePrefixes
    \/ IgnorePostfixes
    \/ PowersetConstructionChained
    \/ IntoDfaChained
    \/ IntoDdfa

SpecLower == Init /\ [][NextLower]_vars

(***************************************************************************)
(* dfa.rs: a DFA made with the public DFAState::new and DFA::new, and      *)
(* lowered by into_ddfa.  The caller gives the shape the data model        *)
(* describes and the callers in the crate give (a dense table per state,   *)
(* one finals bit per state); the contents are arbitrary: a transition may *)
(* target an index that is not a state.                                    *)
(***************************************************************************)
DFAState_new(transitions, pattern_ends) ==
    [transitions |-> transitions, pattern_ends |-> pattern_ends]

DFA_new(states, finals, dictionary) ==
    [states |-> states, finals |-> finals, dict |-> dictionary]

MaxDfaStates == 2

\* The Box<[DFAState]> values of n states over the patterns of dictionary d.
DfaStateArrays(n, d) ==
    {[i \in 0..(n - 1) |-> DFAState_new(tr[i], pe[i])] :
        tr \in [0..(n - 1) -> [Byte -> 0..MaxDfaStates]],
        pe \in [0..(n - 1) -> SeqsUpTo(0..(Len(d) - 1), 1)]}

InitDfa ==
    /\ dict \in {<<p>> : p \in SeqsUpTo(Byte, 1)}
    /\ \E n \in 0..MaxDfaStates :
          \E states \in DfaStateArrays(n, dict), finals \in [0..(n - 1) -> BOOLEAN] :
              dfa = Ok(DFA_new(states, finals, dict))
    /\ stage = "dfa"
    /\ nfa = Null
    /\ ops = <<>>
    /\ dnfa = Null
    /\ ddfa = Null
    /\ overflow_checks \in BOOLEAN
    /\ text = <<>>
    /\ applied = Null
    /\ aut = "none"
    /\ it = Null
    /\ last = NoResult
    /\ yielded = <<>>
    /\ ndfa = Null
    /\ scc = Null

NextDfa == IntoDdfa

SpecDfa == InitDfa /\ [][NextDfa]_vars

(***************************************************************************)
(* nfa.rs: the NFA values of the public constructors and the calls that    *)
(* index self.states.  self.states[i] on a Vec panics when i is not an     *)
(* index of it; NFA::new and NFA::default make an NFA whose states is the  *)
(* empty Vec, without START and STUCK.                                     *)
(***************************************************************************)
NFA_new == [alphabet |-> <<>>, states |-> <<>>, dict |-> <<>>, depth_map |-> <<>>]
NFA_default == [alphabet |-> <<>>, states |-> <<>>, dict |-> <<>>, depth_map |-> <<>>]

\* ignore_prefixes indexes self.states[AUTO_START] for every byte (nfa.rs:127).
ignore_prefixes_call(self) ==
    IF AUTO_START \in DOMAIN self.states THEN NoPanic(ignore_prefixes(self))
    ELSE Panic

\* ignore_postfixes iterates over self.states and indexes nothing.
ignore_postfixes_call(self) == NoPanic(ignore_postfixes(self))

\* The byte loop and the final flat_map of apply index self.states with
\* every active state (nfa.rs:160, 167).
RECURSIVE NFA_run_call(_, _, _, _)
NFA_run_call(self, cur_states, input, k) ==
    IF ~(cur_states \subseteq DOMAIN self.states) THEN Panic
    ELSE IF k > Len(input) THEN NoPanic(cur_states)
    ELSE NFA_run_call(self, NFA_next_state(self, cur_states, input[k]), input, k + 1)

NFA_apply_call(self, input) ==
    LET run == NFA_run_call(self, {AUTO_START}, input, 1)
    IN IF run.panic THEN Panic
       ELSE NoPanic(FlatMapEnds(self, SortedSeq(run.val)))

InitNew ==
    /\ nfa \in {NFA_new, NFA_default} \cup {from_dictionary(d) : d \in Dictionaries}
    /\ dict = nfa.dict
    /\ ops = <<>>
    /\ stage = "nfa"
    /\ dnfa = Null
    /\ dfa = Null
    /\ ddfa = Null
    /\ overflow_checks \in BOOLEAN
    /\ text = <<>>
    /\ applied = Null
    /\ aut = "none"
    /\ it = Null
    /\ last = NoResult
    /\ yielded = <<>>
    /\ ndfa = Null
    /\ scc = Null

\* nfa.ignore_prefixes(); a panic ends the program.
IgnorePrefixesCall ==
    /\ stage = "nfa"
    /\ applied = Null
    /\ Len(ops) < MaxOps
    /\ LET r == ignore_prefixes_call(nfa)
       IN /\ nfa' = IF r.panic THEN nfa ELSE r.val
          /\ stage' = IF r.panic THEN "panicked" ELSE stage
    /\ ops' = Append(ops, "pre")
    /\ UNCHANGED <<ndfa, scc, dict, dnfa, dfa, ddfa, overflow_checks,
                   text, applied, aut, it, last, yielded>>

IgnorePostfixesCall ==
    /\ stage = "nfa"
    /\ applied = Null
    /\ Len(ops) < MaxOps
    /\ LET r == ignore_postfixes_call(nfa)
       IN /\ nfa' = IF r.panic THEN nfa ELSE r.val
          /\ stage' = IF r.panic THEN "panicked" ELSE stage
    /\ ops' = Append(ops, "post")
    /\ UNCHANGED <<ndfa, scc, dict, dnfa, dfa, ddfa, overflow_checks,
                   text, applied, aut, it, last, yielded>>

\* nfa.apply(t)
ApplyCall(t) ==
    /\ stage = "nfa"
    /\ applied = Null
    /\ text' = t
    /\ LET r == NFA_apply_call(nfa, t)
       IN /\ applied' = IF r.panic THEN Panic ELSE [nfa |-> r.val]
          /\ stage' = IF r.panic THEN "panicked" ELSE stage
    /\ UNCHANGED <<ndfa, scc, dict, ops, nfa, dnfa, dfa, ddfa, overflow_checks,
                   aut, it, last, yielded>>

NextNew ==
    \/ IgnorePrefixesCall
    \/ IgnorePostfixesCall
    \/ \E t \in Texts : ApplyCall(t)

SpecNew == InitNew /\ [][NextNew]_vars

(***************************************************************************)
(* Vocabulary of the claims.                                               *)
(***************************************************************************)
PatternNumbers == 0..(Len(dict) - 1)
Pattern(i) == dict[i + 1]
OpsSet == SeqSet(ops)

\* p occurs in t as a contiguous substring / at the end of t.
IsSubstring(p, t) ==
    \E k \in 0..(Len(t) - Len(p)) : SubSeq(t, k + 1, k + Len(p)) = p
IsSuffix(p, t) ==
    Len(p) <= Len(t) /\ SubSeq(t, Len(t) - Len(p) + 1, Len(t)) = p
IsProperPrefix(p, q) ==
    Len(p) < Len(q) /\ SubSeq(q, 1, Len(p)) = p

\* The matches find(t) yields on the automaton called name, up to the
\* first next() that does not return a match.
RECURSIVE Collect(_, _, _)
Collect(A, iter, checks) ==
    LET r == MatchesNext(A, iter, checks)
    IN IF r.result.tag = "Some"
       THEN <<r.result.m>> \o Collect(A, r.it, checks)
       ELSE <<>>
FindAll(name, t) ==
    Collect(Automaton(name), Aut_find(Automaton(name), t), overflow_checks)

(***************************************************************************)
(* C1: for every pattern p with index i of the dictionary, i is in         *)
(* apply(p), on the NFA (baseline, and after ignore_prefixes,              *)
(* ignore_postfixes or both in either order), on the DNFA, the DFA and     *)
(* the DDFA.                                                               *)
(***************************************************************************)
C1_PatternInApply ==
    applied # Null =>
        \A i \in PatternNumbers :
            Pattern(i) = text =>
                /\ i \in SeqSet(applied.nfa)
                /\ i \in SeqSet(applied.dnfa)
                /\ i \in SeqSet(applied.dfa)
                /\ i \in SeqSet(applied.ddfa)

C1_Witness ==
    /\ applied # Null
    /\ ops = <<"post", "pre">>
    /\ Len(dict) = 2
    /\ Pattern(1) = text
    /\ Len(text) = 2
    /\ 1 \in SeqSet(applied.ddfa)

(***************************************************************************)
(* C2: for every text, apply returns the same set of pattern numbers on    *)
(* the NFA (with any ignore_* applied), the DNFA, the DFA and the DDFA,    *)
(* also for bytes outside the dictionary's alphabet and when the DFA runs  *)
(* into STUCK.                                                             *)
(***************************************************************************)
C2_ApplySameSet ==
    applied # Null =>
        /\ SeqSet(applied.dnfa) = SeqSet(applied.nfa)
        /\ SeqSet(applied.dfa) = SeqSet(applied.nfa)
        /\ SeqSet(applied.ddfa) = SeqSet(applied.nfa)

\* A text with a byte that is not in the dictionary, on which patterns are
\* still reported.
C2_Witness ==
    /\ applied # Null
    /\ \E k \in 1..Len(text) : text[k] \notin DictBytes(dict)
    /\ Len(applied.nfa) = 2
    /\ SeqSet(applied.ddfa) = SeqSet(applied.nfa)

(***************************************************************************)
(* C3: for every dictionary and text the sequence of matches find yields   *)
(* is the same on the ignore_prefixes NFA, its DNFA, the DFA and the DDFA. *)
(***************************************************************************)
C3_FindSameSequence ==
    (aut \in AutKinds /\ OpsSet = {"pre"}) =>
        \A name \in AutKinds : FindAll(name, text) = FindAll("nfa", text)

(***************************************************************************)
(* C4: the matches one iterator yields do not overlap: each match starts   *)
(* at or after the end of the one before it.                               *)
(***************************************************************************)
C4_NonOverlapping ==
    \A k \in 1..(Len(yielded) - 1) : yielded[k + 1].start >= yielded[k].end

(***************************************************************************)
(* C5: whenever next() returns a match, the iterator's traversal state is  *)
(* reset to start_state.                                                   *)
(***************************************************************************)
C5_ResetAfterMatch ==
    (aut \in AutKinds /\ last.tag = "Some") =>
        it.state = Aut_start_state(Automaton(aut))

(***************************************************************************)
(* C6: for every match find yields on an ignore_prefixes automaton, end    *)
(* is the offset just past the last byte consumed, start is end minus the  *)
(* pattern's length, and input[start..end] is the pattern.                 *)
(***************************************************************************)
C6_MatchSpan ==
    (aut \in AutKinds /\ OpsSet = {"pre"} /\ last.tag = "Some") =>
        /\ last.m.end = it.offset
        /\ last.m.start = last.m.end - Len(Pattern(last.m.pattern_no))
        /\ SubSeq(text, last.m.start + 1, last.m.end) = Pattern(last.m.pattern_no)

(***************************************************************************)
(* C7: after ignore_prefixes and ignore_postfixes, pattern i is in         *)
(* apply(t) exactly when dictionary[i] occurs in t as a contiguous         *)
(* substring.                                                              *)
(***************************************************************************)
C7_SubstringIffApplied ==
    (applied # Null /\ OpsSet = {"pre", "post"}) =>
        \A i \in PatternNumbers :
            i \in SeqSet(applied.nfa) <=> IsSubstring(Pattern(i), text)

(***************************************************************************)
(* C8: after ignore_prefixes alone, pattern i is in apply(t) exactly when  *)
(* dictionary[i] is a suffix of t.                                         *)
(***************************************************************************)
C8_SuffixIffApplied ==
    (applied # Null /\ OpsSet = {"pre"}) =>
        \A i \in PatternNumbers :
            i \in SeqSet(applied.nfa) <=> IsSuffix(Pattern(i), text)

\* The occurrence does not start at position 0 ("bbc" and pattern "bc").
C8_Witness ==
    /\ applied # Null
    /\ OpsSet = {"pre"}
    /\ Len(text) = 3
    /\ \E i \in PatternNumbers :
          /\ Len(Pattern(i)) = 2
          /\ i \in SeqSet(applied.nfa)
          /\ \E j \in PatternNumbers :
                IsSubstring(Pattern(j), text) /\ j \notin SeqSet(applied.nfa)

(***************************************************************************)
(* C9: after ignore_postfixes acceptance is permanent: a pattern number    *)
(* in apply(q) is in apply(q followed by r) for every continuation r.      *)
(***************************************************************************)
C9_AcceptanceIsPermanent ==
    (applied # Null /\ "post" \in OpsSet) =>
        \A r \in Texts : SeqSet(applied.nfa) \subseteq SeqSet(NFA_apply(nfa, text \o r))

\* "abb": a pattern was recognised before the end of the text.
C9_Witness ==
    /\ applied # Null
    /\ OpsSet = {"post"}
    /\ Len(text) = 3
    /\ \E i \in PatternNumbers :
          /\ Pattern(i) = SubSeq(text, 1, 2)
          /\ text[3] # text[2]
          /\ i \in SeqSet(applied.nfa)

(***************************************************************************)
(* C10: ignore_prefixes and ignore_postfixes commute: the NFA after the    *)
(* two calls in one order is the NFA after the two calls in the other      *)
(* order (states, transitions, pattern-ends, alphabet), and apply returns  *)
(* the same on both.                                                       *)
(***************************************************************************)
C10_IgnoreCommute ==
    /\ ops = <<"pre", "post">> =>
          /\ nfa = ignore_prefixes(ignore_postfixes(from_dictionary(dict)))
          /\ applied # Null =>
                applied.nfa =
                    NFA_apply(ignore_prefixes(ignore_postfixes(from_dictionary(dict))), text)
    /\ ops = <<"post", "pre">> =>
          /\ nfa = ignore_postfixes(ignore_prefixes(from_dictionary(dict)))
          /\ applied # Null =>
                applied.nfa =
                    NFA_apply(ignore_postfixes(ignore_prefixes(from_dictionary(dict))), text)

\* START is accepting (the empty pattern) beside another accepting state.
C10_Witness ==
    /\ ops = <<"pre", "post">>
    /\ applied # Null
    /\ NFAState_is_final(nfa.states[AUTO_START])
    /\ \E s \in DOMAIN nfa.states : s # AUTO_START /\ NFAState_is_final(nfa.states[s])
    /\ Len(applied.nfa) = 2

(***************************************************************************)
(* C11: on the baseline NFA (no ignore_* applied) apply(t) returns exactly *)
(* the pattern numbers i with dictionary[i] = t; it is empty for a proper  *)
(* prefix of a pattern that is not itself a pattern and for a text that    *)
(* leaves the trie.                                                        *)
(***************************************************************************)
C11_BaselineExact ==
    (applied # Null /\ ops = <<>>) =>
        SeqSet(applied.nfa) = {i \in PatternNumbers : Pattern(i) = text}

\* "b" for the dictionary ["a", "ba"]: a proper prefix of a pattern that is
\* not itself a pattern comes back empty.
C11_Witness ==
    /\ applied # Null
    /\ ops = <<>>
    /\ Len(dict) = 2
    /\ text # <<>>
    /\ \E i \in PatternNumbers : IsProperPrefix(text, Pattern(i))
    /\ \A i \in PatternNumbers : Pattern(i) # text
    /\ applied.nfa = <<>>

(***************************************************************************)
(* C12: on the baseline NFA built from BASIC_DICTIONARY, apply("ab")       *)
(* contains both pattern 0 ("a") and pattern 1 ("ab"), while apply("a")    *)
(* contains 0 and does not contain 1.                                      *)
(***************************************************************************)
C12_BasicPrefixReported ==
    (applied # Null /\ dict = BASIC_DICTIONARY /\ ops = <<>>) =>
        /\ text = <<0, 1>> => {0, 1} \subseteq SeqSet(applied.nfa)
        /\ text = <<0>> => (0 \in SeqSet(applied.nfa) /\ 1 \notin SeqSet(applied.nfa))

\* C12 as amended: on the baseline NFA built from BASIC_DICTIONARY,
\* apply("ab") contains pattern 1 ("ab") and does not contain pattern 0
\* ("a"), while apply("a") contains 0 and does not contain 1.
C12_BasicWholeTextOnly ==
    (applied # Null /\ dict = BASIC_DICTIONARY /\ ops = <<>>) =>
        /\ text = <<0, 1>> => (1 \in SeqSet(applied.nfa) /\ 0 \notin SeqSet(applied.nfa))
        /\ text = <<0>> => (0 \in SeqSet(applied.nfa) /\ 1 \notin SeqSet(applied.nfa))

\* apply("ab") was made and returned pattern 1.
C12_Witness ==
    /\ applied # Null
    /\ dict = BASIC_DICTIONARY
    /\ ops = <<>>
    /\ text = <<0, 1>>
    /\ applied.nfa = <<1>>

\* The pattern numbers that end in traversal state st of automaton A: the
\* pattern_ends of the active NFA states, of the DFA state, or of the DDFA
\* state st points to.
StateEnds(A, st) ==
    CASE A.kind = "nfa" -> UNION {SeqSet(A.aut.states[s].pattern_ends) : s \in st}
      [] A.kind = "dfa" -> SeqSet(A.aut.states[st].pattern_ends)
      [] A.kind = "ddfa" -> SeqSet(DDFA_deref(A.aut, st).pattern_ends)

(***************************************************************************)
(* C13: when several patterns end at the same input offset, the match      *)
(* find yields carries the smallest pattern number among them, on the NFA  *)
(* as on the DNFA, the DFA and the DDFA.                                   *)
(***************************************************************************)
C13_SmallestPatternFirst ==
    (aut \in AutKinds /\ last.tag = "Some") =>
        last.m.pattern_no = Min(StateEnds(Automaton(aut), it.state))

(***************************************************************************)
(* C14: apply returns all the pattern numbers that end in the final active *)
(* state(s), in ascending pattern-number order, on the NFA (also after     *)
(* ignore_prefixes, when several trie states are active) as on the DNFA,   *)
(* the DFA and the DDFA.                                                   *)
(***************************************************************************)
C14_ApplyAscending ==
    applied # Null =>
        LET final == NFA_run(nfa, NFA_start_state, text, 1)
            ends == StateEnds([kind |-> "nfa", aut |-> nfa], final)
        IN \A name \in AutKinds : applied[name] = SortedSeq(ends)

\* The pattern numbers get_match(st, k, texti) carries for k = 0, 1, 2, ...
\* taken while has_match(st, k) is true.  texti is MaxPatLen, so that the
\* subtraction in get_match cannot underflow.
RECURSIVE EnumerateMatches(_, _, _)
EnumerateMatches(A, st, k) ==
    IF Aut_has_match(A, st, k)
    THEN <<Aut_get_match(A, st, k, MaxPatLen, TRUE).val.pattern_no>> \o
             EnumerateMatches(A, st, k + 1)
    ELSE <<>>

(***************************************************************************)
(* C15: for every traversal state s an automaton can reach, the pattern    *)
(* numbers of get_match(s, k, .) for k = 0, 1, 2, ... taken while          *)
(* has_match(s, k) is true are exactly the patterns ending at s, each      *)
(* once, and has_match(s, k) is true exactly for k below the size of that  *)
(* set; for NFA set-states as for DFA and DDFA states.                     *)
(***************************************************************************)
C15_EnumerateAllEnds ==
    aut \in AutKinds =>
        LET A == Automaton(aut)
            ends == StateEnds(A, it.state)
            enum == EnumerateMatches(A, it.state, 0)
        IN /\ SeqSet(enum) = ends
           /\ Len(enum) = Cardinality(ends)
           /\ \A k \in 0..Len(dict) :
                 Aut_has_match(A, it.state, k) <=> k < Cardinality(ends)

\* Pattern j is pattern i followed by one other byte, as "ab" is of "a".
IsExtension(i, j) ==
    /\ Len(Pattern(i)) = 1
    /\ Len(Pattern(j)) = 2
    /\ IsProperPrefix(Pattern(i), Pattern(j))
    /\ Pattern(j)[2] # Pattern(j)[1]

(***************************************************************************)
(* C16: for an ignore_prefixes dictionary with a pattern and a proper      *)
(* extension of it ("a" and "ab"), find over a text containing the         *)
(* extension yields both pattern numbers, the pattern first and the        *)
(* extension second, in increasing order of their end offsets.             *)
(***************************************************************************)
C16_PrefixThenExtension ==
    (aut \in AutKinds /\ OpsSet = {"pre"}) =>
        \A i, j \in PatternNumbers :
            (IsExtension(i, j) /\ IsSubstring(Pattern(j), text)) =>
                LET all == FindAll(aut, text)
                IN \E k1, k2 \in 1..Len(all) :
                      /\ k1 < k2
                      /\ all[k1].pattern_no = i
                      /\ all[k2].pattern_no = j
                      /\ all[k1].end < all[k2].end

\* The input positions after which the matches of ms were reported:
\* get_match stores the text_offset it is given, the index of the byte the
\* scan stopped on, in end.
RECURSIVE ReportedAt(_)
ReportedAt(ms) ==
    IF ms = <<>> THEN <<>> ELSE <<Head(ms).end>> \o ReportedAt(Tail(ms))

(***************************************************************************)
(* C17: for every dictionary and text, find on the ignore_prefixes NFA, on *)
(* its DNFA, on the DFA and on the DDFA yield the same number of matches,  *)
(* reported after consuming the same input positions.                      *)
(***************************************************************************)
C17_FindSamePositions ==
    (aut \in AutKinds /\ OpsSet = {"pre"}) =>
        \A name \in AutKinds :
            ReportedAt(FindAll(name, text)) = ReportedAt(FindAll("nfa", text))

\* The offsets of t just past the end of an occurrence of a pattern.
EndOffsets(t) ==
    {k + Len(Pattern(i)) : <<i, k>> \in
        {ik \in PatternNumbers \X (0..Len(t)) :
            /\ ik[2] + Len(Pattern(ik[1])) <= Len(t)
            /\ SubSeq(t, ik[2] + 1, ik[2] + Len(Pattern(ik[1]))) = Pattern(ik[1])}}

\* The first call of next() on a fresh iterator over the text.
FirstNext(name, t) ==
    MatchesNext(Automaton(name), Aut_find(Automaton(name), t), overflow_checks)

(***************************************************************************)
(* C18: for an ignore_prefixes automaton (NFA, DNFA, DFA or DDFA), find    *)
(* yields no match at all if and only if no pattern occurs in the input as *)
(* a substring; when some pattern occurs, the first match is reported at   *)
(* the smallest input position at which an occurrence of a pattern ends.   *)
(* Stated for the dictionaries without the empty pattern, whose            *)
(* occurrences all end after some byte was consumed.                       *)
(***************************************************************************)
C18_FirstMatchEarliestEnd ==
    (aut \in AutKinds /\ OpsSet = {"pre"}
        /\ \A i \in PatternNumbers : Pattern(i) # <<>>) =>
        LET first == FirstNext(aut, text)
        IN /\ first.result.tag # "Some" <=> EndOffsets(text) = {}
           /\ first.result.tag = "Some" => first.it.offset = Min(EndOffsets(text))

(***************************************************************************)
(* C19: find over an empty input yields no match, on every automaton,      *)
(* also when the dictionary contains the empty pattern (START accepting).  *)
(***************************************************************************)
C19_EmptyInputNoMatch ==
    (aut \in AutKinds /\ text = <<>>) =>
        /\ yielded = <<>>
        /\ last.tag \in {"Init", "None"}

\* next() was called on an iterator over the empty input while START is
\* accepting.
C19_Witness ==
    /\ aut \in AutKinds
    /\ text = <<>>
    /\ last.tag = "None"
    /\ Aut_has_match(Automaton(aut), it.state, 0)
    /\ \E i \in PatternNumbers : Pattern(i) = <<>>

\* The targets of state s of the current NFA value on byte b.
Targets(s, b) == GetOrEmpty(nfa.states[s].transitions, b)

(***************************************************************************)
(* C20: NFA::into_dfa returns an error if and only if some state has more  *)
(* than one target state on some byte; otherwise it returns a DFA with the *)
(* same number of states in which every state has an entry for every byte  *)
(* value, holding the single target for a byte that has a transition and   *)
(* STUCK for every other byte.                                             *)
(***************************************************************************)
C20_IntoDfaErrIffNondeterministic ==
    stage \in {"dfa", "ddfa"} =>
        /\ ~dfa.ok <=> \E s \in DOMAIN nfa.states, b \in Byte :
                           Cardinality(Targets(s, b)) > 1
        /\ dfa.ok =>
              /\ DOMAIN dfa.val.states = DOMAIN nfa.states
              /\ \A s \in DOMAIN nfa.states :
                    /\ DOMAIN dfa.val.states[s].transitions = Byte
                    /\ \A b \in Byte :
                          IF b \in DOMAIN nfa.states[s].transitions
                          THEN Targets(s, b) = {dfa.val.states[s].transitions[b]}
                          ELSE dfa.val.states[s].transitions[b] = AUTO_STUCK

\* into_dfa failed on a DNFA on which ignore_prefixes was called after
\* powerset_construction.
C20_Witness ==
    /\ stage = "dfa"
    /\ ops = <<"powerset", "pre">>
    /\ ~dfa.ok

\* Pointer ptr designates an element of the state array of DDFA d.
InStateArray(d, ptr) ==
    \E k \in DOMAIN d.states : ptr = DDFA_ref(d, k)

C22_PipelineNeverFails ==
    /\ stage \in {"dfa", "ddfa"} => dfa.ok
    /\ stage = "ddfa" => ddfa.ok

\* The whole pipeline was run on a two-pattern dictionary with both
\* ignore_* calls made, which makes the NFA nondeterministic.
C22_Witness ==
    /\ stage = "ddfa"
    /\ ddfa.ok
    /\ OpsSet = {"pre", "post"}
    /\ Len(dict) = 2
    /\ \E s \in DOMAIN nfa.states, b \in Byte :
          Cardinality(GetOrEmpty(nfa.states[s].transitions, b)) > 1

(***************************************************************************)
(* C23: apply, ignore_prefixes and ignore_postfixes never fail (no panic,  *)
(* no error) on any NFA value obtainable from NFA::new, NFA::default and   *)
(* NFA::from_dictionary (the empty dictionary included), for any input.    *)
(***************************************************************************)
C23_NfaCallsNeverFail == stage # "panicked"

\* The automaton a is the result of a powerset_construction: ops ends with
\* "powerset" when the call was chained on the current NFA value.
LastOpIsPowerset == ops # <<>> /\ ops[Len(ops)] = "powerset"

\* Every state of a other than STUCK has exactly one target, a state of a,
\* for every byte of a's alphabet, and STUCK has no transition.
IsDeterministicShape(a) ==
    \A s \in DOMAIN a.states :
        IF s = AUTO_STUCK
        THEN DOMAIN a.states[s].transitions = {}
        ELSE \A b \in SeqSet(a.alphabet) :
                /\ Cardinality(GetOrEmpty(a.states[s].transitions, b)) = 1
                /\ GetOrEmpty(a.states[s].transitions, b) \subseteq DOMAIN a.states

(***************************************************************************)
(* C24: in the automaton returned by powerset_construction every state     *)
(* other than STUCK has exactly one target state for every byte of the     *)
(* alphabet, STUCK has no outgoing transition, and every target is a valid *)
(* state index of that automaton.                                          *)
(***************************************************************************)
C24_PowersetDeterministic ==
    /\ dnfa # Null => IsDeterministicShape(dnfa)
    /\ LastOpIsPowerset => IsDeterministicShape(nfa)

\* The DNFA of an ignore_prefixes NFA with two patterns: one of its states
\* stands for several accepting NFA states.
C24_Witness ==
    /\ dnfa # Null
    /\ ops = <<"pre">>
    /\ \E s \in DOMAIN dnfa.states :
          s # AUTO_START /\ Len(dnfa.states[s].pattern_ends) = 2

(***************************************************************************)
(* C25: in every DFA lowered by into_dfa from a from_dictionary NFA or     *)
(* from a powerset_construction result, state STUCK (index 1) maps every   *)
(* byte to STUCK and has an empty pattern-ends list, so a traversal that   *)
(* enters STUCK stays in STUCK and reports no match.                       *)
(***************************************************************************)
C25_StuckIsSink ==
    (stage \in {"dfa", "ddfa"} /\ dfa.ok
        /\ (ops = <<>> \/ LastOpIsPowerset \/ dnfa # Null)) =>
        /\ AUTO_STUCK \in DOMAIN dfa.val.states
        /\ dfa.val.states[AUTO_STUCK].pattern_ends = <<>>
        /\ \A b \in Byte :
              /\ dfa.val.states[AUTO_STUCK].transitions[b] = AUTO_STUCK
              /\ DFA_next_state(dfa.val, AUTO_STUCK, b) = AUTO_STUCK
        /\ ~DFA_has_match(dfa.val, AUTO_STUCK, 0)

\* A DFA lowered from a powerset_construction result in which START is
\* accepting and some state has a transition into STUCK.
C25_Witness ==
    /\ stage = "dfa"
    /\ dfa.ok
    /\ LastOpIsPowerset
    /\ DFA_has_match(dfa.val, AUTO_START, 0)
    /\ \E s \in DOMAIN dfa.val.states, b \in Byte :
          s # AUTO_STUCK /\ dfa.val.states[s].transitions[b] = AUTO_STUCK

(***************************************************************************)
(* C26: in every DFA built by NFA::into_dfa and every DDFA built from it   *)
(* by into_ddfa, finals bit i (DFA) and is_final of state i (DDFA) are set *)
(* if and only if state i's pattern-ends list is non-empty.                *)
(***************************************************************************)
C26_FinalIffPatternEnds ==
    /\ (stage \in {"dfa", "ddfa"} /\ dfa.ok) =>
          /\ DOMAIN dfa.val.finals = DOMAIN dfa.val.states
          /\ \A i \in DOMAIN dfa.val.states :
                dfa.val.finals[i] <=> dfa.val.states[i].pattern_ends # <<>>
    /\ (stage = "ddfa" /\ ddfa.ok) =>
          \A i \in DOMAIN ddfa.val.states :
              /\ ddfa.val.states[i].is_final
                    <=> ddfa.val.states[i].pattern_ends # <<>>
              /\ ddfa.val.states[i].pattern_ends
                    = dfa.val.states[i].pattern_ends

\* A DDFA with an accepting state that still has a way out of it, an
\* accepting state, and a state that is not accepting.
C26_Witness ==
    /\ stage = "ddfa"
    /\ ddfa.ok
    /\ \E i \in DOMAIN ddfa.val.states :
          /\ ddfa.val.states[i].is_final
          /\ \E b \in Byte : dfa.val.states[i].transitions[b] # AUTO_STUCK
    /\ \E i \in DOMAIN ddfa.val.states :
          i # AUTO_STUCK /\ ~ddfa.val.states[i].is_final

(***************************************************************************)
(* C27: every state of the automaton returned by powerset_construction     *)
(* that stands for a set X of NFA states has as pattern-ends exactly the    *)
(* union of the pattern-ends of the NFA states in X, listed in ascending   *)
(* pattern-number order without duplicates (START keeps the NFA START's    *)
(* pattern-ends).                                                          *)
(***************************************************************************)
IsStrictlyAscending(seq) ==
    \A i, j \in DOMAIN seq : i < j => seq[i] < seq[j]

EndsOfSet(a, X) ==
    UNION {SeqSet(a.states[s].pattern_ends) : s \in X \cap DOMAIN a.states}

C27_EndsAreUnionOfSubset ==
    dnfa # Null =>
        LET sm == powerset_states_map(nfa)
        IN /\ \A i \in DOMAIN dnfa.states : \E X \in DOMAIN sm : sm[X] = i
           /\ \A X \in DOMAIN sm :
                 /\ sm[X] \in DOMAIN dnfa.states
                 /\ IsStrictlyAscending(dnfa.states[sm[X]].pattern_ends)
                 /\ SeqSet(dnfa.states[sm[X]].pattern_ends) = EndsOfSet(nfa, X)
           /\ dnfa.states[AUTO_START].pattern_ends
                 = nfa.states[AUTO_START].pattern_ends

\* A DNFA state that stands for a set of three NFA states, two of which
\* end a pattern, and so lists two pattern numbers.
C27_Witness ==
    /\ dnfa # Null
    /\ \E X \in DOMAIN powerset_states_map(nfa) :
          /\ Cardinality(X) = 3
          /\ Cardinality({s \in X : nfa.states[s].pattern_ends # <<>>}) = 2
          /\ Len(dnfa.states[powerset_states_map(nfa)[X]].pattern_ends) = 2

(***************************************************************************)
(* C28: in the deterministic automaton produced by powerset_construction   *)
(* (with or without ignore_prefixes / ignore_postfixes applied first) and  *)
(* in its DFA and DDFA lowerings, every pattern number 0..N-1 of an        *)
(* N-pattern dictionary appears in exactly one state's pattern-ends list,  *)
(* exactly once, and no other number appears.                              *)
(***************************************************************************)
StatesEnding(states, p) ==
    {i \in DOMAIN states : p \in SeqSet(states[i].pattern_ends)}

Occurrences(seq, p) == Cardinality({k \in DOMAIN seq : seq[k] = p})

OnlyPatternNumbers(states) ==
    \A i \in DOMAIN states :
        /\ SeqSet(states[i].pattern_ends) \subseteq PatternNumbers
        /\ \A p \in PatternNumbers : Occurrences(states[i].pattern_ends, p) <= 1

InOneState(states) ==
    /\ OnlyPatternNumbers(states)
    /\ \A p \in PatternNumbers : Cardinality(StatesEnding(states, p)) = 1

InSomeState(states) ==
    /\ OnlyPatternNumbers(states)
    /\ \A p \in PatternNumbers :
          /\ Cardinality(StatesEnding(states, p)) >= 1
          /\ ops = <<>> => Cardinality(StatesEnding(states, p)) = 1

\* The claim as stated: exactly one state for each pattern.
C28_EachPatternInOneState ==
    /\ dnfa # Null => InOneState(dnfa.states)
    /\ (stage \in {"dfa", "ddfa"} /\ dfa.ok) => InOneState(dfa.val.states)
    /\ (stage = "ddfa" /\ ddfa.ok) => InOneState(ddfa.val.states)

\* C28 as the code has it: every pattern number 0..N-1 appears in at least
\* one state's pattern-ends list, at most once in each list, and no other
\* number appears; when no ignore_* operation was applied before
\* powerset_construction it appears in exactly one state's list.
C28_EachPatternInSomeState ==
    /\ dnfa # Null => InSomeState(dnfa.states)
    /\ (stage \in {"dfa", "ddfa"} /\ dfa.ok) => InSomeState(dfa.val.states)
    /\ (stage = "ddfa" /\ ddfa.ok) => InSomeState(ddfa.val.states)

\* After ignore_prefixes a pattern is listed by two states of the DNFA, of
\* the DFA and of the DDFA.
C28_Witness ==
    /\ stage = "ddfa"
    /\ ddfa.ok
    /\ ops = <<"pre">>
    /\ \E p \in PatternNumbers :
          /\ Cardinality(StatesEnding(dnfa.states, p)) = 2
          /\ Cardinality(StatesEnding(dfa.val.states, p)) = 2
          /\ Cardinality(StatesEnding(ddfa.val.states, p)) = 2

(***************************************************************************)
(* The same ignore_* calls made on the baseline NFA and on its DNFA, as    *)
(* the tests basic_powerset_ignore_* do (nfa.rs:528-572): nfa is           *)
(* from_dictionary(dict) and dnfa is nfa.powerset_construction(), then     *)
(* every ignore_* call is made on both, and apply is called on both.       *)
(***************************************************************************)
InitBoth ==
    /\ dict \in Dictionaries
    /\ nfa = from_dictionary(dict)
    /\ dnfa = powerset_construction(from_dictionary(dict))
    /\ ops = <<>>
    /\ stage = "dnfa"
    /\ dfa = Null
    /\ ddfa = Null
    /\ overflow_checks \in BOOLEAN
    /\ text = <<>>
    /\ applied = Null
    /\ aut = "none"
    /\ it = Null
    /\ last = NoResult
    /\ yielded = <<>>
    /\ ndfa = Null
    /\ scc = Null

IgnorePrefixesBoth ==
    /\ Idle
    /\ Len(ops) < MaxOps
    /\ nfa' = ignore_prefixes(nfa)
    /\ dnfa' = ignore_prefixes(dnfa)
    /\ ops' = Append(ops, "pre")
    /\ UNCHANGED <<ndfa, scc, dict, stage, dfa, ddfa, overflow_checks,
                   text, applied, aut, it, last, yielded>>

IgnorePostfixesBoth ==
    /\ Idle
    /\ Len(ops) < MaxOps
    /\ nfa' = ignore_postfixes(nfa)
    /\ dnfa' = ignore_postfixes(dnfa)
    /\ ops' = Append(ops, "post")
    /\ UNCHANGED <<ndfa, scc, dict, stage, dfa, ddfa, overflow_checks,
                   text, applied, aut, it, last, yielded>>

ApplyBoth(t) ==
    /\ Idle
    /\ text' = t
    /\ applied' = [nfa |-> NFA_apply(nfa, t), dnfa |-> NFA_apply(dnfa, t)]
    /\ UNCHANGED <<ndfa, scc, dict, ops, nfa, stage, dnfa, dfa, ddfa, overflow_checks,
                   aut, it, last, yielded>>

NextBoth ==
    \/ IgnorePrefixesBoth
    \/ IgnorePostfixesBoth
    \/ \E t \in Texts : ApplyBoth(t)

SpecBoth == InitBoth /\ [][NextBoth]_vars

(***************************************************************************)
(* C29: applying ignore_prefixes and/or ignore_postfixes to the DNFA       *)
(* returned by powerset_construction of a baseline NFA gives, for every    *)
(* text, the same set of pattern numbers from apply as applying the same   *)
(* ignore_* operations directly to the baseline NFA.                       *)
(***************************************************************************)
C29_IgnoreCommutesWithPowerset ==
    (applied # Null /\ ops # <<>>) =>
        SeqSet(applied.dnfa) = SeqSet(applied.nfa)

\* Both ignore_* calls were made, the text starts with a byte that only the
\* self-loop on START can read, and both automata report a pattern.
C29_Witness ==
    /\ applied # Null
    /\ SeqSet(ops) = {"pre", "post"}
    /\ Len(text) = 3
    /\ NFA_apply(from_dictionary(dict), SubSeq(text, 1, 1)) = <<>>
    /\ NFA_apply(from_dictionary(dict), text) = <<>>
    /\ applied.dnfa # <<>>
    /\ applied.nfa # <<>>

(***************************************************************************)
(* C30: the subtraction text_offset - len(dictionary[pattern_no]) in       *)
(* get_match never underflows at any point where the match iterator calls  *)
(* it: every match yielded by find satisfies                               *)
(* 0 <= start <= end <= len(input), including a match whose occurrence     *)
(* begins at input position 0.                                             *)
(***************************************************************************)
C30_GetMatchNeverUnderflows ==
    aut \in AutKinds =>
        /\ last.tag # "Panic"
        /\ last.tag = "Some" =>
              /\ 0 <= last.m.start
              /\ last.m.start <= last.m.end
              /\ last.m.end <= Len(text)

(***************************************************************************)
(* C31: the match iterator is exhausted for good: once next() has returned *)
(* None for an input, every later call to next() on the same iterator also *)
(* returns None.                                                           *)
(***************************************************************************)
C31_NoneIsFinal ==
    [][(aut \in AutKinds /\ last.tag = "None") => last'.tag = "None"]_vars

(***************************************************************************)
(* C32: every call to the match iterator's next() terminates, each input   *)
(* byte is consumed at most once over the life of an iterator until it     *)
(* first returns None, successive matches are reported at strictly         *)
(* increasing input positions, and therefore at most len(input) matches    *)
(* are yielded.                                                            *)
(***************************************************************************)
\* The indices of self.input that one call of next() hands to next_state
\* (automaton.rs:63-69), in the order it reads them.
ConsumedByNext(A, self) ==
    LET scan == MatchesScan(A, self.input, self.state, self.offset)
        upto == IF scan.offset < Len(self.input) THEN scan.offset
                ELSE Len(self.input) - 1
    IN [k \in 1 .. (upto - self.offset + 1) |-> self.offset + k - 1]

\* The indices read by the calls of next() from iterator self on, up to and
\* including the first call that does not yield a match.
RECURSIVE ConsumedUntilNone(_, _, _)
ConsumedUntilNone(A, self, checks) ==
    LET r == MatchesNext(A, self, checks)
    IN ConsumedByNext(A, self) \o
          (IF r.result.tag = "Some" THEN ConsumedUntilNone(A, r.it, checks)
           ELSE <<>>)

C32_NextTerminatesBytesOnce ==
    aut \in AutKinds =>
        /\ it.offset <= Len(text)
        /\ Len(yielded) <= Len(text)
        /\ \A i, j \in DOMAIN yielded :
              i < j => yielded[i].end < yielded[j].end
        /\ \A i \in DOMAIN yielded : yielded[i].end < it.offset
        /\ LET consumed == ConsumedUntilNone(Automaton(aut),
                                             Aut_find(Automaton(aut), text),
                                             overflow_checks)
           IN /\ SeqSet(consumed) \subseteq 0 .. (Len(text) - 1)
              /\ \A i, j \in DOMAIN consumed : i < j => consumed[i] < consumed[j]

\* Two matches were yielded from a three-byte input, the first after a
\* scan over more than one byte.
C32_Witness ==
    /\ aut \in AutKinds
    /\ Len(text) = 3
    /\ Len(yielded) = 2
    /\ yielded[1].end >= 1
    /\ yielded[2].end > yielded[1].end

(***************************************************************************)
(* C33: powerset_construction terminates for every NFA, and it allocates   *)
(* each distinct reachable set of NFA states exactly once: every (subset,  *)
(* state) pair is pushed on the worklist at most once, two different       *)
(* non-STUCK states of the result never stand for the same NFA state set,  *)
(* and the empty set and {STUCK} are mapped to STUCK without allocating a  *)
(* state.                                                                  *)
(***************************************************************************)
\* The sets of NFA states that a run of a from {START} can be in, as the
\* least set closed under a step on a byte of the alphabet.
RECURSIVE SetsClosure(_, _)
SetsClosure(a, seen) ==
    LET more == {NFA_next_state(a, X, b) : X \in seen, b \in SeqSet(a.alphabet)}
    IN IF more \subseteq seen THEN seen ELSE SetsClosure(a, seen \cup more)

ReachableSets(a) == SetsClosure(a, {{AUTO_START}})

PowersetAllocatesOnce(a) ==
    LET fin == PowersetLoop(a, PowersetSetup(a))
        sm == fin.states_map
    IN /\ fin.worklist = <<>>
       /\ \A i, j \in DOMAIN fin.pushed :
             i # j => /\ fin.pushed[i][1] # fin.pushed[j][1]
                      /\ fin.pushed[i][2] # fin.pushed[j][2]
       /\ {pr[2] : pr \in SeqSet(fin.pushed)} = (DOMAIN fin.states) \ {AUTO_STUCK}
       /\ \A pr \in SeqSet(fin.pushed) : sm[pr[1]] = pr[2]
       /\ \A X, Y \in DOMAIN sm :
             (sm[X] = sm[Y] /\ sm[X] # AUTO_STUCK) => X = Y
       /\ DOMAIN sm = ReachableSets(a) \cup {{}, {AUTO_STUCK}}
       /\ sm[{}] = AUTO_STUCK
       /\ sm[{AUTO_STUCK}] = AUTO_STUCK
       /\ \A X \in DOMAIN sm : sm[X] = AUTO_STUCK => X \in {{}, {AUTO_STUCK}}
       /\ VecLen(fin.states) = 1 + Cardinality(ReachableSets(a) \ {{}, {AUTO_STUCK}})

C33_PowersetAllocatesOnce ==
    dnfa # Null =>
        /\ PowersetAllocatesOnce(nfa)
        /\ dnfa.states = PowersetLoop(nfa, PowersetSetup(nfa)).states

\* The NFA has self-loops on START and the loop meets some set of three
\* NFA states coming from two different sets.
C33_Witness ==
    /\ dnfa # Null
    /\ "pre" \in SeqSet(ops)
    /\ \E X \in ReachableSets(nfa) :
          /\ Cardinality(X) = 3
          /\ Cardinality({Y \in ReachableSets(nfa) :
                 \E b \in SeqSet(nfa.alphabet) : NFA_next_state(nfa, Y, b) = X}) >= 2

(***************************************************************************)
(* C34: the NFA returned by from_dictionary is a trie: it has exactly      *)
(* 2 + (number of distinct non-empty prefixes of the patterns) states,     *)
(* every transition set contains exactly one state, no transition targets  *)
(* START or STUCK, STUCK has no transitions and no pattern-ends, each      *)
(* pattern number i appears in the pattern-ends of exactly the state       *)
(* reached by pattern i (duplicate patterns share a state, listed in       *)
(* insertion order), and the alphabet is the ascending set of bytes        *)
(* occurring in the patterns.                                              *)
(***************************************************************************)
NonEmptyPrefixes ==
    UNION {{SubSeq(dict[i], 1, k) : k \in 1 .. Len(dict[i])} : i \in DOMAIN dict}

SamePatternAs(i) == {j \in PatternNumbers : Pattern(j) = Pattern(i)}

IsTrie(a) ==
    /\ VecLen(a.states) = 2 + Cardinality(NonEmptyPrefixes)
    /\ \A s \in DOMAIN a.states : \A b \in DOMAIN a.states[s].transitions :
          /\ Cardinality(a.states[s].transitions[b]) = 1
          /\ a.states[s].transitions[b] \subseteq
                (DOMAIN a.states) \ {AUTO_START, AUTO_STUCK}
    /\ a.states[AUTO_STUCK] = NFAState_new
    /\ \A i \in PatternNumbers :
          LET reached == NFA_run(a, {AUTO_START}, Pattern(i), 1)
          IN /\ Cardinality(reached) = 1
             /\ \A s \in DOMAIN a.states :
                   i \in SeqSet(a.states[s].pattern_ends) <=> s \in reached
             /\ \A s \in reached :
                   a.states[s].pattern_ends = SortedSeq(SamePatternAs(i))
    /\ a.alphabet = SortedSeq(DictBytes(dict))
    /\ IsStrictlyAscending(a.alphabet)

C34_FromDictionaryIsTrie ==
    ops = <<>> => /\ nfa = from_dictionary(dict)
                  /\ IsTrie(nfa)

\* Two patterns that share a first byte and differ in the second: the
\* second pattern follows a transition, then adds one.
C34_Witness ==
    /\ ops = <<>>
    /\ Len(dict) = 2
    /\ Len(dict[1]) = 2
    /\ Len(dict[2]) = 2
    /\ dict[1][1] = dict[2][1]
    /\ dict[1][2] # dict[2][2]
    /\ VecLen(nfa.states) = 5

(***************************************************************************)
(* ndfa.rs: NDFA, an NFA that is built edge by edge with a DFA kept beside *)
(* it.  START and STUCK are the constants of nfa.rs (0 and 1).  An entry   *)
(* of nfa_states or dfa_states is the pair (transitions, is_final); the    *)
(* hash maps are partial functions, the hash sets are sets.  Every         *)
(* operation gives NoPanic(the NDFA after the call) or Panic.              *)
(***************************************************************************)
NdfaEntry == [transitions |-> <<>>, is_final |-> FALSE]

NDFA_new ==
    [nfa_states |-> VecPush(VecPush(<<>>, NdfaEntry), NdfaEntry),
     dfa_states |-> VecPush(VecPush(<<>>, NdfaEntry), NdfaEntry),
     corresponding_dfa_states |-> VecPush(VecPush(<<>>, {AUTO_STUCK}), {AUTO_START}),
     represents_nfa_states |-> VecPush(VecPush(<<>>, {AUTO_STUCK}), {AUTO_START}),
     nfa_states_to_dfa_state |-> MapInsert(MapInsert(<<>>,
                                    {AUTO_STUCK}, AUTO_STUCK),
                                    {AUTO_START}, AUTO_START)]

\* map.insert(key, val) on the transitions of a DFA state.
SetTransition(tr, on, to) ==
    [k \in (DOMAIN tr) \cup {on} |-> IF k = on THEN to ELSE tr[k]]

\* ndfa.rs:95-108 and 143-156: the DFA state that stands for nfa_to_states,
\* a clone of old_dfa_to_state added when there is none yet, becomes the
\* target of from_dfa on the byte.
RetargetDfa(self, from_dfa, on, old_dfa_to_state, nfa_to_states) ==
    IF nfa_to_states \in DOMAIN self.nfa_states_to_dfa_state
    THEN [self EXCEPT !.dfa_states[from_dfa].transitions =
              SetTransition(@, on, self.nfa_states_to_dfa_state[nfa_to_states])]
    ELSE LET newer_dfa_state == VecLen(self.dfa_states)
         IN [self EXCEPT
                !.dfa_states =
                    [VecPush(@, self.dfa_states[old_dfa_to_state])
                        EXCEPT ![from_dfa].transitions =
                            SetTransition(@, on, newer_dfa_state)],
                !.represents_nfa_states = VecPush(@, nfa_to_states),
                !.nfa_states_to_dfa_state =
                    MapInsert(@, nfa_to_states, newer_dfa_state)]

\* The body of the loop of new_state over corresponding_dfa_states[from]
\* when from had no transition on the byte (ndfa.rs:73-77).
NewStateFresh(self, from_dfa, on, new_dfa_state) ==
    IF from_dfa \notin DOMAIN self.dfa_states THEN Panic
    ELSE IF on \in DOMAIN self.dfa_states[from_dfa].transitions THEN Panic
    ELSE NoPanic([self EXCEPT !.dfa_states[from_dfa].transitions =
                      SetTransition(@, on, new_dfa_state)])

\* The body of the loop of new_state over corresponding_dfa_states[from]
\* when from had a transition on the byte (ndfa.rs:84-110).
NewStateMerge(self, from_dfa, on, new_state, new_dfa_state) ==
    IF from_dfa \notin DOMAIN self.dfa_states THEN Panic
    ELSE IF on \notin DOMAIN self.dfa_states[from_dfa].transitions
    THEN NoPanic([self EXCEPT !.dfa_states[from_dfa].transitions =
                      SetTransition(@, on, new_dfa_state)])
    ELSE LET old_dfa_to_state == self.dfa_states[from_dfa].transitions[on]
         IN IF old_dfa_to_state \notin DOMAIN self.represents_nfa_states
               \/ old_dfa_to_state \notin DOMAIN self.dfa_states
            THEN Panic
            ELSE NoPanic(RetargetDfa(self, from_dfa, on, old_dfa_to_state,
                     self.represents_nfa_states[old_dfa_to_state] \cup {new_state}))

\* for &from_dfa in &self.corresponding_dfa_states[from], over the DFA
\* states still to visit, in one order of the set.
RECURSIVE NewStateLoop(_, _, _, _, _, _)
NewStateLoop(r, todo, on, new_state, new_dfa_state, fresh) ==
    IF r.panic \/ todo = <<>> THEN r
    ELSE NewStateLoop(IF fresh
                      THEN NewStateFresh(r.val, Head(todo), on, new_dfa_state)
                      ELSE NewStateMerge(r.val, Head(todo), on, new_state,
                                         new_dfa_state),
                      Tail(todo), on, new_state, new_dfa_state, fresh)

\* NDFA::new_state (ndfa.rs:53-114); the state number returned is the
\* length of nfa_states before the call.
NDFA_new_state(self, from, on) ==
    IF ~(from < VecLen(self.nfa_states)) THEN Panic
    ELSE LET new_state == VecLen(self.nfa_states)
             new_dfa_state == VecLen(self.dfa_states)
             fresh == on \notin DOMAIN self.nfa_states[from].transitions
             to_states == IF fresh THEN {new_state}
                          ELSE self.nfa_states[from].transitions[on] \cup {new_state}
             pushed == [self EXCEPT
                 !.nfa_states = [VecPush(@, NdfaEntry) EXCEPT ![from].transitions =
                                    SetTransition(@, on, to_states)],
                 !.dfa_states = VecPush(@, NdfaEntry),
                 !.corresponding_dfa_states = VecPush(@, {new_dfa_state}),
                 !.represents_nfa_states = VecPush(@, to_states),
                 !.nfa_states_to_dfa_state = MapInsert(@, to_states, new_dfa_state)]
         IN NewStateLoop(NoPanic(pushed),
                         SortedSeq(self.corresponding_dfa_states[from]),
                         on, new_state, new_dfa_state, fresh)

\* The body of the loop of new_edge (ndfa.rs:129-157).
NewEdgeStep(self, from_dfa, to, on) ==
    IF from_dfa \notin DOMAIN self.dfa_states THEN Panic
    ELSE IF on \notin DOMAIN self.dfa_states[from_dfa].transitions THEN Panic
    ELSE LET old_dfa_to_state == self.dfa_states[from_dfa].transitions[on]
         IN IF old_dfa_to_state \notin DOMAIN self.represents_nfa_states
               \/ old_dfa_to_state \notin DOMAIN self.dfa_states
            THEN Panic
            ELSE NoPanic(RetargetDfa(self, from_dfa, on, old_dfa_to_state,
                     self.represents_nfa_states[old_dfa_to_state] \cup {to}))

RECURSIVE NewEdgeLoop(_, _, _, _)
NewEdgeLoop(r, todo, to, on) ==
    IF r.panic \/ todo = <<>> THEN r
    ELSE NewEdgeLoop(NewEdgeStep(r.val, Head(todo), to, on), Tail(todo), to, on)

\* NDFA::new_edge (ndfa.rs:117-160).
NDFA_new_edge(self, from, to, on) ==
    IF ~(from < VecLen(self.nfa_states)) \/ ~(to < VecLen(self.nfa_states))
    THEN Panic
    ELSE IF on \in DOMAIN self.nfa_states[from].transitions
            /\ to \in self.nfa_states[from].transitions[on]
    THEN NoPanic(self)
    ELSE NewEdgeLoop(NoPanic(self),
                     SortedSeq(self.corresponding_dfa_states[from]), to, on)

\* NDFA::mark_final (ndfa.rs:162-169).
NDFA_mark_final(self, state) ==
    IF ~(state < VecLen(self.nfa_states)) THEN Panic
    ELSE IF ~(self.corresponding_dfa_states[state] \subseteq DOMAIN self.dfa_states)
    THEN Panic
    ELSE NoPanic([self EXCEPT
            !.nfa_states[state].is_final = TRUE,
            !.dfa_states = [d \in DOMAIN @ |->
                IF d \in self.corresponding_dfa_states[state]
                THEN [@[d] EXCEPT !.is_final = TRUE]
                ELSE @[d]]])

\* NDFA::finalize (ndfa.rs:172-194).
NDFA_finalize(self) ==
    DFA_new([i \in DOMAIN self.dfa_states |->
                DFAState_new([b \in Byte |->
                                 IF b \in DOMAIN self.dfa_states[i].transitions
                                 THEN self.dfa_states[i].transitions[b]
                                 ELSE AUTO_STUCK],
                             <<>>)],
            [i \in DOMAIN self.dfa_states |-> self.dfa_states[i].is_final],
            <<>>)

\* The DFA states that the worklist of compact sees (ndfa.rs:198-210).
RECURSIVE CompactSeen(_, _)
CompactSeen(self, seen) ==
    LET more == UNION {{self.dfa_states[st].transitions[b] :
                           b \in DOMAIN self.dfa_states[st].transitions} :
                       st \in seen \cap DOMAIN self.dfa_states}
    IN IF more \subseteq seen THEN seen ELSE CompactSeen(self, seen \cup more)

VecSwap(v, a, b) ==
    [k \in DOMAIN v |-> IF k = a THEN v[b] ELSE IF k = b THEN v[a] ELSE v[k]]

VecTruncate(v, n) == [k \in {j \in DOMAIN v : j < n} |-> v[k]]

\* renumber.get(&x).unwrap_or(&x)
Renumbered(renumber, x) == IF x \in DOMAIN renumber THEN renumber[x] ELSE x

\* for idx in 1..seen_states.len(), from idx on (ndfa.rs:214-229); c holds
\* the NDFA, dropped and renumber.
RECURSIVE CompactLoop(_, _, _, _)
CompactLoop(c, seen_states, idx, len) ==
    IF idx >= len THEN c
    ELSE IF idx \notin seen_states
    THEN CompactLoop([c EXCEPT !.dropped = @ + 1], seen_states, idx + 1, len)
    ELSE IF c.dropped > 0
    THEN LET swapped == VecSwap(c.self.represents_nfa_states, idx - c.dropped, idx)
         IN CompactLoop(
                [c EXCEPT
                    !.renumber = MapInsert(@, idx, idx - c.dropped),
                    !.self.dfa_states = VecSwap(@, idx - c.dropped, idx),
                    !.self.represents_nfa_states = swapped,
                    !.self.nfa_states_to_dfa_state =
                        MapInsert(@, swapped[idx - c.dropped], idx - c.dropped)],
                seen_states, idx + 1, len)
    ELSE CompactLoop(c, seen_states, idx + 1, len)

\* NDFA::compact (ndfa.rs:197-247).
NDFA_compact(self) ==
    LET seen_states == CompactSeen(self, {AUTO_START})
    IN IF ~(seen_states \subseteq DOMAIN self.dfa_states) THEN Panic
       ELSE LET c == CompactLoop([self |-> self, dropped |-> 0, renumber |-> <<>>],
                                 seen_states, 1, Cardinality(seen_states))
                truncated == VecTruncate(c.self.dfa_states,
                                         VecLen(c.self.dfa_states) - c.dropped)
            IN NoPanic([c.self EXCEPT
                   !.dfa_states = [d \in DOMAIN truncated |->
                       [truncated[d] EXCEPT !.transitions =
                           [b \in DOMAIN @ |-> Renumbered(c.renumber, @[b])]]],
                   !.represents_nfa_states =
                       VecTruncate(@, VecLen(@) - c.dropped),
                   !.corresponding_dfa_states = [n \in DOMAIN @ |->
                       {Renumbered(c.renumber, d) : d \in @[n]}]])

(***************************************************************************)
(* The calls a client makes on an NDFA: NDFA::new, then new_state,         *)
(* new_edge, mark_final and compact on existing NFA states in any order,   *)
(* and finalize.  ops is the list of the calls made.                       *)
(***************************************************************************)
MaxNfaStates == 4
MaxNdfaOps == 4

\* The state numbers a client can hold: those new_state has returned, START
\* and STUCK.
StateNumbers == 0 .. (MaxNfaStates - 1)

InitNdfa ==
    /\ ndfa = NDFA_new
    /\ ops = <<>>
    /\ stage = "ndfa"
    /\ dict = <<>>
    /\ nfa = Null
    /\ dnfa = Null
    /\ dfa = Null
    /\ ddfa = Null
    /\ overflow_checks \in BOOLEAN
    /\ text = <<>>
    /\ applied = Null
    /\ aut = "none"
    /\ it = Null
    /\ last = NoResult
    /\ yielded = <<>>
    /\ scc = Null

\* Every call leaves the NDFA after it, or a panic and the NDFA as it was.
NewState(from, on) ==
    /\ stage = "ndfa"
    /\ from \in DOMAIN ndfa.nfa_states
    /\ Len(ops) < MaxNdfaOps
    /\ VecLen(ndfa.nfa_states) < MaxNfaStates
    /\ LET r == NDFA_new_state(ndfa, from, on)
       IN /\ stage' = IF r.panic THEN "panicked" ELSE stage
          /\ ndfa' = IF r.panic THEN ndfa ELSE r.val
    /\ ops' = Append(ops, <<"new_state", from, on>>)
    /\ UNCHANGED <<scc, dict, nfa, dnfa, dfa, ddfa, overflow_checks,
                   text, applied, aut, it, last, yielded>>

NewEdge(from, to, on) ==
    /\ stage = "ndfa"
    /\ from \in DOMAIN ndfa.nfa_states
    /\ to \in DOMAIN ndfa.nfa_states
    /\ Len(ops) < MaxNdfaOps
    /\ LET r == NDFA_new_edge(ndfa, from, to, on)
       IN /\ stage' = IF r.panic THEN "panicked" ELSE stage
          /\ ndfa' = IF r.panic THEN ndfa ELSE r.val
    /\ ops' = Append(ops, <<"new_edge", from, to, on>>)
    /\ UNCHANGED <<scc, dict, nfa, dnfa, dfa, ddfa, overflow_checks,
                   text, applied, aut, it, last, yielded>>

MarkFinal(state) ==
    /\ stage = "ndfa"
    /\ state \in DOMAIN ndfa.nfa_states
    /\ Len(ops) < MaxNdfaOps
    /\ LET r == NDFA_mark_final(ndfa, state)
       IN /\ stage' = IF r.panic THEN "panicked" ELSE stage
          /\ ndfa' = IF r.panic THEN ndfa ELSE r.val
    /\ ops' = Append(ops, <<"mark_final", state>>)
    /\ UNCHANGED <<scc, dict, nfa, dnfa, dfa, ddfa, overflow_checks,
                   text, applied, aut, it, last, yielded>>

Compact ==
    /\ stage = "ndfa"
    /\ Len(ops) < MaxNdfaOps
    /\ LET r == NDFA_compact(ndfa)
       IN /\ stage' = IF r.panic THEN "panicked" ELSE stage
          /\ ndfa' = IF r.panic THEN ndfa ELSE r.val
    /\ ops' = Append(ops, <<"compact">>)
    /\ UNCHANGED <<scc, dict, nfa, dnfa, dfa, ddfa, overflow_checks,
                   text, applied, aut, it, last, yielded>>

Finalize ==
    /\ stage = "ndfa"
    /\ dfa' = Ok(NDFA_finalize(ndfa))
    /\ stage' = "finalized"
    /\ UNCHANGED <<ndfa, scc, dict, ops, nfa, dnfa, ddfa, overflow_checks,
                   text, applied, aut, it, last, yielded>>

NextNdfa ==
    \/ \E from \in StateNumbers, on \in Byte : NewState(from, on)
    \/ \E from, to \in StateNumbers, on \in Byte : NewEdge(from, to, on)
    \/ \E state \in StateNumbers : MarkFinal(state)
    \/ Compact
    \/ Finalize

SpecNdfa == InitNdfa /\ [][NextNdfa]_vars

(***************************************************************************)
(* C35: for an NDFA built by any sequence of new_state, new_edge and       *)
(* mark_final calls starting from NDFA::new, finalize() returns a DFA that *)
(* is the determinisation of the NFA part: run from START, the DFA ends in *)
(* a state whose finals bit is set exactly for the inputs on which the NFA *)
(* part, run from NFA state START, can end in a state marked final; and    *)
(* its STUCK state (index 1) maps every byte to STUCK.                     *)
(***************************************************************************)
\* The NFA states the NFA part can be in after the bytes of input from
\* byte k on, starting in one of cur_states.
RECURSIVE NfaPartRun(_, _, _, _)
NfaPartRun(self, cur_states, input, k) ==
    IF k > Len(input) THEN cur_states
    ELSE NfaPartRun(self,
                    UNION {GetOrEmpty(self.nfa_states[st].transitions, input[k]) :
                              st \in cur_states},
                    input, k + 1)

\* The state a DFA is in after the bytes of input from byte k on.
RECURSIVE DfaEnd(_, _, _, _)
DfaEnd(d, state, input, k) ==
    IF k > Len(input) THEN state
    ELSE DfaEnd(d, DFA_next_state(d, state, input[k]), input, k + 1)

CallsMade == {ops[k][1] : k \in DOMAIN ops}

C35_FinalizeDeterminises ==
    (stage = "finalized" /\ "compact" \notin CallsMade) =>
        /\ \A t \in Texts :
              dfa.val.finals[DfaEnd(dfa.val, AUTO_START, t, 1)]
                 <=> \E st \in NfaPartRun(ndfa, {AUTO_START}, t, 1) :
                        ndfa.nfa_states[st].is_final
        /\ \A b \in Byte : dfa.val.states[AUTO_STUCK].transitions[b] = AUTO_STUCK

(***************************************************************************)
(* C36: NDFA::new_edge(from, to, on) succeeds without panicking for any    *)
(* two existing NFA states from and to and any byte on, whether or not the *)
(* DFA states corresponding to from already have a transition on that      *)
(* byte, and is a no-op when the edge already exists.                      *)
(***************************************************************************)
EdgeExists(self, from, to, on) ==
    /\ on \in DOMAIN self.nfa_states[from].transitions
    /\ to \in self.nfa_states[from].transitions[on]

C36_NewEdgeNeverPanics ==
    [][\A from, to \in StateNumbers, on \in Byte :
          (stage = "ndfa" /\ ops' = Append(ops, <<"new_edge", from, to, on>>)) =>
              /\ stage' # "panicked"
              /\ EdgeExists(ndfa, from, to, on) => ndfa' = ndfa]_vars

(***************************************************************************)
(* C37: NDFA::compact removes exactly the DFA states that are not          *)
(* reachable from START and nothing else: afterwards START and STUCK still *)
(* have indices 0 and 1, dfa_states and represents_nfa_states have equal   *)
(* length, every transition target is a valid index, and the transition    *)
(* graph and finality of the reachable states are the same as before up to *)
(* the renumbering.                                                        *)
(***************************************************************************)
\* Where the DFA part is after the bytes of input from byte k on: a state
\* number, or -1 when a transition is missing or leads out of dfa_states.
RECURSIVE DfaPartRun(_, _, _, _)
DfaPartRun(self, state, input, k) ==
    IF state \notin DOMAIN self.dfa_states THEN -1
    ELSE IF k > Len(input) THEN state
    ELSE IF input[k] \notin DOMAIN self.dfa_states[state].transitions THEN -1
    ELSE DfaPartRun(self, self.dfa_states[state].transitions[input[k]], input, k + 1)

\* Is the input accepted, rejected or not followed by the DFA part.
DfaPartVerdict(self, input) ==
    LET end == DfaPartRun(self, AUTO_START, input, 1)
    IN IF end = -1 THEN "none"
       ELSE IF self.dfa_states[end].is_final THEN "final" ELSE "not final"

TargetsValid(self) ==
    \A d \in DOMAIN self.dfa_states :
        \A b \in DOMAIN self.dfa_states[d].transitions :
            self.dfa_states[d].transitions[b] \in DOMAIN self.dfa_states

CompactedFrom(before, after) ==
    LET kept == CompactSeen(before, {AUTO_START}) \cup {AUTO_STUCK}
    IN /\ VecLen(after.dfa_states) = Cardinality(kept)
       /\ VecLen(after.represents_nfa_states) = VecLen(after.dfa_states)
       /\ TargetsValid(after)
       /\ after.dfa_states[AUTO_STUCK] = before.dfa_states[AUTO_STUCK]
       /\ \A t \in Texts : DfaPartVerdict(after, t) = DfaPartVerdict(before, t)

C37_CompactKeepsReachable ==
    [][(stage = "ndfa" /\ ops' = Append(ops, <<"compact">>)) =>
          /\ stage' # "panicked"
          /\ CompactedFrom(ndfa, ndfa')]_vars

(***************************************************************************)
(* C38: in an NDFA, after NDFA::new and after any sequence of new_state,   *)
(* new_edge, mark_final and compact calls, nfa_states_to_dfa_state is the  *)
(* reverse of represents_nfa_states: for every DFA state d,                *)
(* nfa_states_to_dfa_state[represents_nfa_states[d]] = d, and              *)
(* represents_nfa_states has one entry per DFA state.                      *)
(***************************************************************************)
C38_MapIsReverseOfRepresents ==
    ndfa # Null =>
        /\ DOMAIN ndfa.represents_nfa_states = DOMAIN ndfa.dfa_states
        /\ \A d \in DOMAIN ndfa.dfa_states :
              /\ ndfa.represents_nfa_states[d] \in DOMAIN ndfa.nfa_states_to_dfa_state
              /\ ndfa.nfa_states_to_dfa_state[ndfa.represents_nfa_states[d]] = d

(***************************************************************************)
(* scc.rs: SccMutState, the bookkeeping of Tarjan's algorithm.  Vectors    *)
(* are functions over 0..len-1, the hash map scc_set is a partial          *)
(* function, usize::MAX is the largest value of the scaled usize.          *)
(***************************************************************************)
UsizeMax == UsizeMod - 1

\* SccMutState::new (scc.rs:13-22).
SccMutState_new(states) ==
    [count |-> 0,
     index |-> [st \in 0 .. (states - 1) |-> UsizeMax],
     lowlink |-> [st \in 0 .. (states - 1) |-> UsizeMax],
     scc_stack |-> <<>>,
     scc_set |-> <<>>,
     sccs |-> <<>>]

\* SccMutState::visited (scc.rs:25-27).
SccMutState_visited(self, st_ref) == self.index[st_ref] # UsizeMax

\* SccMutState::scc_seed (scc.rs:30-32).
SccMutState_scc_seed(self, st_ref) == self.index[st_ref] = self.lowlink[st_ref]

\* SccMutState::init (scc.rs:34-40).
SccMutState_init(self, st_ref) ==
    IF st_ref \notin DOMAIN self.index THEN Panic
    ELSE NoPanic([self EXCEPT
            !.index[st_ref] = self.count,
            !.lowlink[st_ref] = self.count,
            !.count = (self.count + 1) % UsizeMod,
            !.scc_set = MapInsert(@, st_ref, VecLen(self.scc_stack)),
            !.scc_stack = VecPush(@, st_ref)])

\* SccMutState::update (scc.rs:42-44).
SccMutState_update(self, from, to) ==
    IF from \notin DOMAIN self.lowlink \/ to \notin DOMAIN self.lowlink THEN Panic
    ELSE NoPanic([self EXCEPT
            !.lowlink[from] = Min({self.lowlink[from], self.lowlink[to]})])

\* Vec::remove(index): the element is taken out and the later ones move
\* down; it panics when index is out of bounds.
VecRemove(v, index) ==
    [k \in 0 .. (VecLen(v) - 2) |-> IF k < index THEN v[k] ELSE v[k + 1]]

\* for &st_ref in &scc { self.scc_stack.remove(st_ref); } from element k of
\* scc on (scc.rs:65-67).
RECURSIVE RemoveEach(_, _, _)
RemoveEach(r, scc_vec, k) ==
    IF r.panic \/ k >= VecLen(scc_vec) THEN r
    ELSE RemoveEach(IF scc_vec[k] \in DOMAIN r.val THEN NoPanic(VecRemove(r.val, scc_vec[k]))
                    ELSE Panic,
                    scc_vec, k + 1)

\* SccMutState::construct_scc (scc.rs:61-70).
SccMutState_construct_scc(self, from) ==
    IF from \notin DOMAIN self.index THEN Panic
    ELSE IF ~SccMutState_scc_seed(self, from) THEN NoPanic(self)
    ELSE IF from \notin DOMAIN self.scc_stack THEN Panic
    ELSE LET offset == self.scc_stack[from]
             len == VecLen(self.scc_stack)
         IN IF offset > len THEN Panic
            ELSE LET scc_vec == [k \in 0 .. (len - offset - 1) |->
                                    self.scc_stack[offset + k]]
                     kept == VecTruncate(self.scc_stack, offset)
                     removed == RemoveEach(NoPanic(kept), scc_vec, 0)
                 IN IF removed.panic THEN Panic
                    ELSE NoPanic([self EXCEPT
                            !.scc_stack = removed.val,
                            !.sccs = VecPush(@, scc_vec)])

(***************************************************************************)
(* The calls of a traversal on one SccMutState: init on a state not yet    *)
(* visited, update between visited states, construct_scc on a state that   *)
(* is on the stack.                                                        *)
(***************************************************************************)
MaxSccStates == 3
MaxSccOps == 5

InitScc ==
    /\ \E states \in 1 .. MaxSccStates : scc = SccMutState_new(states)
    /\ ops = <<>>
    /\ stage = "scc"
    /\ ndfa = Null
    /\ dict = <<>>
    /\ nfa = Null
    /\ dnfa = Null
    /\ dfa = Null
    /\ ddfa = Null
    /\ overflow_checks \in BOOLEAN
    /\ text = <<>>
    /\ applied = Null
    /\ aut = "none"
    /\ it = Null
    /\ last = NoResult
    /\ yielded = <<>>

SccInit(st_ref) ==
    /\ stage = "scc"
    /\ Len(ops) < MaxSccOps
    /\ st_ref \in DOMAIN scc.index
    /\ ~SccMutState_visited(scc, st_ref)
    /\ LET r == SccMutState_init(scc, st_ref)
       IN /\ stage' = IF r.panic THEN "panicked" ELSE stage
          /\ scc' = IF r.panic THEN scc ELSE r.val
    /\ ops' = Append(ops, <<"init", st_ref>>)
    /\ UNCHANGED <<ndfa, dict, nfa, dnfa, dfa, ddfa, overflow_checks,
                   text, applied, aut, it, last, yielded>>

SccUpdate(from, to) ==
    /\ stage = "scc"
    /\ Len(ops) < MaxSccOps
    /\ from \in DOMAIN scc.scc_set
    /\ to \in DOMAIN scc.scc_set
    /\ LET r == SccMutState_update(scc, from, to)
       IN /\ stage' = IF r.panic THEN "panicked" ELSE stage
          /\ scc' = IF r.panic THEN scc ELSE r.val
    /\ ops' = Append(ops, <<"update", from, to>>)
    /\ UNCHANGED <<ndfa, dict, nfa, dnfa, dfa, ddfa, overflow_checks,
                   text, applied, aut, it, last, yielded>>

ConstructScc(from) ==
    /\ stage = "scc"
    /\ Len(ops) < MaxSccOps
    /\ from \in DOMAIN scc.scc_set
    /\ LET r == SccMutState_construct_scc(scc, from)
       IN /\ stage' = IF r.panic THEN "panicked" ELSE stage
          /\ scc' = IF r.panic THEN scc ELSE r.val
    /\ ops' = Append(ops, <<"construct_scc", from>>)
    /\ UNCHANGED <<ndfa, dict, nfa, dnfa, dfa, ddfa, overflow_checks,
                   text, applied, aut, it, last, yielded>>

SccStates == 0 .. (MaxSccStates - 1)

NextScc ==
    \/ \E st_ref \in SccStates : SccInit(st_ref)
    \/ \E from, to \in SccStates : SccUpdate(from, to)
    \/ \E from \in SccStates : ConstructScc(from)

SpecScc == InitScc /\ [][NextScc]_vars

(***************************************************************************)
(* C39: in SccMutState, scc_set is always the map from each state          *)
(* currently on scc_stack to its offset in that stack: after any sequence  *)
(* of init and construct_scc calls, scc_set[s] = k if and only if          *)
(* scc_stack[k] = s, and construct_scc(from) on an SCC root (index =       *)
(* lowlink) moves exactly the states at and above from's stack offset into *)
(* a new entry of sccs.                                                    *)
(***************************************************************************)
SetIsStackOffsets(self) ==
    /\ \A s \in DOMAIN self.scc_set :
          /\ self.scc_set[s] \in DOMAIN self.scc_stack
          /\ self.scc_stack[self.scc_set[s]] = s
    /\ \A k \in DOMAIN self.scc_stack :
          /\ self.scc_stack[k] \in DOMAIN self.scc_set
          /\ self.scc_set[self.scc_stack[k]] = k

\* The stack below offset, and the states at and above it as one more SCC.
MovedFrom(before, after, offset) ==
    /\ after.scc_stack = VecTruncate(before.scc_stack, offset)
    /\ after.sccs = VecPush(before.sccs,
                            [k \in 0 .. (VecLen(before.scc_stack) - offset - 1) |->
                                before.scc_stack[offset + k]])

C39_SccSetIsStackOffsets ==
    [][stage = "scc" =>
          /\ stage' = "scc" => SetIsStackOffsets(scc')
          /\ \A from \in SccStates :
                (/\ ops' = Append(ops, <<"construct_scc", from>>)
                 /\ SccMutState_scc_seed(scc, from)) =>
                    /\ stage' # "panicked"
                    /\ MovedFrom(scc, scc', scc.scc_set[from])]_vars

(***************************************************************************)
(* nfa.rs: add_depth_map.  depth_map is a function from depth to the set   *)
(* of states stored under it; cur_nodes is walked in ascending order and   *)
(* visited is written node by node, as the for loop does.                  *)
(***************************************************************************)
\* Every state a node has a transition to on a byte of the alphabet.
Successors(self, node) ==
    UNION {GetOrEmpty(self.states[node].transitions, byte) :
              byte \in SeqSet(self.alphabet)}

\* for &node in &cur_nodes, from element k of the ascending list todo on
\* (nfa.rs:106-116); w holds visited and nxt_nodes.
RECURSIVE DepthLayer(_, _, _, _)
DepthLayer(self, w, todo, k) ==
    IF k > Len(todo) THEN w
    ELSE LET node == todo[k]
             visited == w.visited \cup {node}
         IN DepthLayer(self,
                       [visited |-> visited,
                        nxt_nodes |-> w.nxt_nodes \cup
                            {n \in Successors(self, node) : n \notin visited}],
                       todo, k + 1)

\* while !cur_nodes.is_empty() (nfa.rs:105-121).
RECURSIVE DepthLoop(_, _, _, _, _)
DepthLoop(self, depth_map, visited, cur_nodes, depth) ==
    IF cur_nodes = {} THEN depth_map
    ELSE LET w == DepthLayer(self, [visited |-> visited, nxt_nodes |-> {}],
                             SortedSeq(cur_nodes), 1)
         IN DepthLoop(self, MapInsert(depth_map, depth, cur_nodes),
                      w.visited, w.nxt_nodes, depth + 1)

\* NFA::add_depth_map (nfa.rs:91-122).
add_depth_map(self) ==
    IF DOMAIN self.depth_map # {} THEN self
    ELSE [self EXCEPT !.depth_map = DepthLoop(self, <<>>, {}, {AUTO_START}, 0)]

(***************************************************************************)
(* add_depth_map called on the NFA and on the DNFA, at any point of the    *)
(* construction and more than once.                                        *)
(***************************************************************************)
MaxDepthCalls == 2

DepthCalls(name) == Cardinality({k \in DOMAIN ops : ops[k] = name})

AddDepthMapNfa ==
    /\ stage \in {"nfa", "dnfa"}
    /\ DepthCalls("depth_nfa") < MaxDepthCalls
    /\ nfa' = add_depth_map(nfa)
    /\ ops' = Append(ops, "depth_nfa")
    /\ UNCHANGED <<ndfa, scc, dict, stage, dnfa, dfa, ddfa, overflow_checks,
                   text, applied, aut, it, last, yielded>>

AddDepthMapDnfa ==
    /\ stage = "dnfa"
    /\ DepthCalls("depth_dnfa") < MaxDepthCalls
    /\ dnfa' = add_depth_map(dnfa)
    /\ ops' = Append(ops, "depth_dnfa")
    /\ UNCHANGED <<ndfa, scc, dict, stage, nfa, dfa, ddfa, overflow_checks,
                   text, applied, aut, it, last, yielded>>

NextDepth ==
    \/ IgnorePrefixes
    \/ IgnorePostfixes
    \/ PowersetConstruction
    \/ AddDepthMapNfa
    \/ AddDepthMapDnfa

SpecDepth == Init /\ [][NextDepth]_vars

(***************************************************************************)
(* C40: after add_depth_map on any NFA or DNFA (including one with         *)
(* ignore_prefixes self-loops and edges between states of the same depth), *)
(* depth_map partitions the states reachable from START: each reachable    *)
(* state appears in exactly one layer d, d equals its shortest-path        *)
(* distance from START, and a second call to add_depth_map leaves          *)
(* depth_map unchanged.                                                    *)
(***************************************************************************)
\* The states at distance exactly d from START, given those at smaller
\* distances (closer) and those at distance d - 1 (frontier).
RECURSIVE AtDistance(_, _, _, _)
AtDistance(a, closer, frontier, d) ==
    IF d = 0 \/ frontier = {} THEN frontier
    ELSE AtDistance(a, closer \cup frontier,
                    (UNION {Successors(a, n) : n \in frontier})
                        \ (closer \cup frontier),
                    d - 1)

Distance(a, d) == AtDistance(a, {}, {AUTO_START}, d)

IsDepthPartition(a) ==
    /\ \A d \in DOMAIN a.depth_map : a.depth_map[d] = Distance(a, d)
    /\ \A d \in 0 .. VecLen(a.states) :
          Distance(a, d) # {} => d \in DOMAIN a.depth_map

AfterAddDepthMap(before, after) ==
    /\ IsDepthPartition(after)
    /\ before.depth_map # <<>> => after = before

C40_DepthMapPartitions ==
    [][/\ ops' = Append(ops, "depth_nfa") => AfterAddDepthMap(nfa, nfa')
       /\ ops' = Append(ops, "depth_dnfa") => AfterAddDepthMap(dnfa, dnfa')]_vars
====
